---- MODULE Spec2Model ----
(***************************************************************************)
(* Model of the subtitle translation core of the Arte subtitle translator: *)
(* the WebVTT parser/rebuilder (shared/vtt.ts), the cue text styling codec *)
(* (shared/vtt-styling.ts), the translation adapter (translateTexts), the  *)
(* background pipeline (runTranslationPipeline), the background layer's    *)
(* request listener and message handler, and the content script's track    *)
(* injection and bootstrap.                                                *)
(*                                                                         *)
(* A JavaScript string is a sequence of one-character strings, so that     *)
(* split, join, trim, includes and startsWith are computed character by    *)
(* character as the code computes them.                                    *)
(***************************************************************************)
EXTENDS Integers, Sequences, FiniteSets, TLC

\* ------------------------------------------------------------------------
\* JavaScript string primitives
\* ------------------------------------------------------------------------

NL == "\n"
CR == "\r"
TAB == "\t"
SP == " "
BOM == "BOM"

\* The white space String.prototype.trim removes (LF, CR, TAB, space, U+FEFF).
WhiteSpace == {NL, CR, TAB, SP, BOM}

ARROW == <<"-", "-", ">">>

RECURSIVE TrimStart(_)
TrimStart(s) ==
  IF s = <<>> THEN <<>>
  ELSE IF Head(s) \in WhiteSpace THEN TrimStart(Tail(s)) ELSE s

RECURSIVE TrimEnd(_)
TrimEnd(s) ==
  IF s = <<>> THEN <<>>
  ELSE IF s[Len(s)] \in WhiteSpace THEN TrimEnd(SubSeq(s, 1, Len(s) - 1)) ELSE s

Trim(s) == TrimEnd(TrimStart(s))

StartsWith(s, p) == Len(s) >= Len(p) /\ SubSeq(s, 1, Len(p)) = p

EndsWith(s, p) == Len(s) >= Len(p) /\ SubSeq(s, Len(s) - Len(p) + 1, Len(s)) = p

\* String.prototype.indexOf: the first position (from 1) where p occurs in s, 0 if none.
IndexOf(s, p) ==
  LET hits == {i \in 1..(Len(s) - Len(p) + 1) : SubSeq(s, i, i + Len(p) - 1) = p}
  IN IF hits = {} THEN 0 ELSE CHOOSE i \in hits : \A j \in hits : i <= j

Includes(s, p) == IndexOf(s, p) # 0

\* String.prototype.split(sep) for a non-empty separator: the pieces between the
\* successive leftmost occurrences of sep.
RECURSIVE Split(_, _)
Split(s, sep) ==
  LET i == IndexOf(s, sep)
  IN IF i = 0 THEN <<s>>
     ELSE <<SubSeq(s, 1, i - 1)>> \o Split(SubSeq(s, i + Len(sep), Len(s)), sep)

\* Array.prototype.join(sep)
RECURSIVE Join(_, _)
Join(parts, sep) ==
  IF parts = <<>> THEN <<>>
  ELSE IF Len(parts) = 1 THEN parts[1]
  ELSE parts[1] \o sep \o Join(Tail(parts), sep)

\* String.prototype.replace(/\r\n/g, '\n')
\* (every CR that a LF follows is dropped)
ReplaceCrLf(s) ==
  LET withNext == [i \in 1..Len(s) |-> <<s[i], IF i < Len(s) THEN s[i + 1] ELSE "">>]
      kept == SelectSeq(withNext, LAMBDA pair : ~(pair[1] = CR /\ pair[2] = NL))
  IN [i \in 1..Len(kept) |-> kept[i][1]]

UpperChar(c) ==
  CASE c = "n" -> "N" [] c = "o" -> "O" [] c = "t" -> "T" [] c = "e" -> "E"
    [] c = "s" -> "S" [] c = "y" -> "Y" [] c = "l" -> "L"
    [] c = "w" -> "W" [] c = "b" -> "B" [] c = "v" -> "V"
    [] c = "r" -> "R" [] c = "g" -> "G" [] c = "i" -> "I"
    [] c = "a" -> "A" [] c = "x" -> "X" [] c = "h" -> "H" [] c = "d" -> "D"
    [] OTHER -> c

\* String.prototype.toUpperCase
ToUpperCase(s) == [i \in 1..Len(s) |-> UpperChar(s[i])]

\* ------------------------------------------------------------------------
\* shared/vtt.ts: WebVTT parser and rebuilder
\* ------------------------------------------------------------------------

\* An absent optional field (cue.id, cue.settings). It differs from every
\* JavaScript string of the model, whose elements are single characters.
Undefined == <<"undefined">>

WEBVTT == <<"W", "E", "B", "V", "T", "T">>
NOTE == <<"N", "O", "T", "E">>
STYLE == <<"S", "T", "Y", "L", "E">>
REGION == <<"R", "E", "G", "I", "O", "N">>

\* vttText.replace(/^\uFEFF/, '').replace(/\r\n/g, '\n').split('\n')
normalizeVttLines(vttText) ==
  LET noBom == IF vttText # <<>> /\ Head(vttText) = BOM THEN Tail(vttText) ELSE vttText
  IN Split(ReplaceCrLf(noBom), <<NL>>)

\* parseTimeLine without the trim of the settings.
parseTimeLineKeepingBlanks(line) ==
  LET parts == Split(line, ARROW)
      startPart == parts[1]
      hasEnd == Len(parts) >= 2
      endAndSettings == IF hasEnd THEN parts[2] ELSE <<>>
      start == Trim(startPart)
      trimmedRemainder == Trim(endAndSettings)
      firstSpaceIndex == IndexOf(trimmedRemainder, <<SP>>)
      endTok == Trim(SubSeq(trimmedRemainder, 1, firstSpaceIndex - 1))
      settings == SubSeq(trimmedRemainder, firstSpaceIndex + 1, Len(trimmedRemainder))
      null == [ok |-> FALSE, start |-> <<>>, end |-> <<>>, settings |-> Undefined]
  IN IF startPart = <<>> \/ ~hasEnd \/ endAndSettings = <<>> THEN null
     ELSE IF start = <<>> THEN null
     ELSE IF trimmedRemainder = <<>> THEN null
     ELSE IF firstSpaceIndex = 0
       THEN [ok |-> TRUE, start |-> start, end |-> trimmedRemainder, settings |-> Undefined]
     ELSE [ok |-> TRUE, start |-> start, end |-> endTok,
           settings |-> IF Len(settings) > 0 THEN settings ELSE Undefined]

\* The result of parseTimeLine: ok = FALSE stands for null.
parseTimeLine(line) ==
  LET parts == Split(line, ARROW)
      startPart == parts[1]
      hasEnd == Len(parts) >= 2
      endAndSettings == IF hasEnd THEN parts[2] ELSE <<>>
      start == Trim(startPart)
      trimmedRemainder == Trim(endAndSettings)
      firstSpaceIndex == IndexOf(trimmedRemainder, <<SP>>)
      endTok == Trim(SubSeq(trimmedRemainder, 1, firstSpaceIndex - 1))
      settings == Trim(SubSeq(trimmedRemainder, firstSpaceIndex + 1, Len(trimmedRemainder)))
      null == [ok |-> FALSE, start |-> <<>>, end |-> <<>>, settings |-> Undefined]
  IN IF startPart = <<>> \/ ~hasEnd \/ endAndSettings = <<>> THEN null
     ELSE IF start = <<>> THEN null
     ELSE IF trimmedRemainder = <<>> THEN null
     ELSE IF firstSpaceIndex = 0
       THEN [ok |-> TRUE, start |-> start, end |-> trimmedRemainder, settings |-> Undefined]
     ELSE [ok |-> TRUE, start |-> start, end |-> endTok,
           settings |-> IF Len(settings) > 0 THEN settings ELSE Undefined]

\* skipBlankLines, from position index (positions count from 1)
RECURSIVE skipBlankLines(_, _)
skipBlankLines(lines, index) ==
  IF index <= Len(lines) /\ Trim(lines[index]) = <<>>
  THEN skipBlankLines(lines, index + 1) ELSE index

isMetadataBlock(line) ==
  LET upper == ToUpperCase(Trim(line))
  IN StartsWith(upper, NOTE) \/ StartsWith(upper, STYLE) \/ StartsWith(upper, REGION)

isSignature(line) == StartsWith(ToUpperCase(Trim(line)), WEBVTT)

\* A metadata block that runs to the end of the text.
metadataBlockEndAtEndOfText(lines, index) == Len(lines) + 1

\* The inner loop of skipMetadataBlockIfNeeded: blank lines are stepped over, and
\* the block ends at a line that has, or is followed by a line that has, '-->'.
RECURSIVE metadataBlockEnd(_, _)
metadataBlockEnd(lines, index) ==
  IF index > Len(lines) THEN index
  ELSE IF Trim(lines[index]) = <<>> THEN metadataBlockEnd(lines, index + 1)
  ELSE IF Includes(lines[index], ARROW)
          \/ (index + 1 <= Len(lines) /\ Includes(lines[index + 1], ARROW))
       THEN index
  ELSE metadataBlockEnd(lines, index + 1)

\* The text lines of a cue: every line up to the next blank line or the end.
RECURSIVE cueTextEnd(_, _)
cueTextEnd(lines, index) ==
  IF index <= Len(lines) /\ Trim(lines[index]) # <<>>
  THEN cueTextEnd(lines, index + 1) ELSE index

\* The iteration of the main loop of parseVtt without the `index += 1` that
\* steps over a timing line parseTimeLine refuses.
parseVttStepKeepingRefusedLine(lines, index, cues) ==
  LET currentLine == lines[index]
      hasId == ~Includes(currentLine, ARROW)
      timeIndex == IF hasId THEN index + 1 ELSE index
      goOn(nextIndex, nextCues) == [index |-> nextIndex, cues |-> nextCues, break |-> FALSE]
  IN IF Trim(currentLine) = <<>> THEN goOn(index + 1, cues)
     ELSE IF isSignature(currentLine) THEN goOn(index + 1, cues)
     ELSE IF isMetadataBlock(currentLine)
       THEN goOn(skipBlankLines(lines, metadataBlockEnd(lines, index + 1)), cues)
     ELSE IF hasId /\ timeIndex > Len(lines)
       THEN [index |-> timeIndex, cues |-> cues, break |-> TRUE]
     ELSE IF ~Includes(lines[timeIndex], ARROW) THEN goOn(timeIndex + 1, cues)
     ELSE
       LET parsedTime == parseTimeLine(lines[timeIndex])
           textEnd == cueTextEnd(lines, timeIndex + 1)
           id == Trim(currentLine)
           cue == [id |-> IF hasId /\ Len(id) > 0 THEN id ELSE Undefined,
                   start |-> parsedTime.start,
                   end |-> parsedTime.end,
                   settings |-> parsedTime.settings,
                   text |-> Join(SubSeq(lines, timeIndex + 1, textEnd - 1), <<NL>>)]
       IN IF ~parsedTime.ok THEN goOn(timeIndex, cues)
          ELSE goOn(skipBlankLines(lines, textEnd), Append(cues, cue))

\* One iteration of the main loop of parseVtt at position index: the position
\* and the cues it leaves, and whether it left the loop by `break`.
parseVttStep(lines, index, cues) ==
  LET currentLine == lines[index]
      hasId == ~Includes(currentLine, ARROW)
      timeIndex == IF hasId THEN index + 1 ELSE index
      goOn(nextIndex, nextCues) == [index |-> nextIndex, cues |-> nextCues, break |-> FALSE]
  IN IF Trim(currentLine) = <<>> THEN goOn(index + 1, cues)
     ELSE IF isSignature(currentLine) THEN goOn(index + 1, cues)
     ELSE IF isMetadataBlock(currentLine)
       THEN goOn(skipBlankLines(lines, metadataBlockEnd(lines, index + 1)), cues)
     ELSE IF hasId /\ timeIndex > Len(lines)
       THEN [index |-> timeIndex, cues |-> cues, break |-> TRUE]
     ELSE IF ~Includes(lines[timeIndex], ARROW) THEN goOn(timeIndex + 1, cues)
     ELSE
       LET parsedTime == parseTimeLine(lines[timeIndex])
           textEnd == cueTextEnd(lines, timeIndex + 1)
           id == Trim(currentLine)
           cue == [id |-> IF hasId /\ Len(id) > 0 THEN id ELSE Undefined,
                   start |-> parsedTime.start,
                   end |-> parsedTime.end,
                   settings |-> parsedTime.settings,
                   text |-> Join(SubSeq(lines, timeIndex + 1, textEnd - 1), <<NL>>)]
       IN IF ~parsedTime.ok THEN goOn(timeIndex + 1, cues)
          ELSE goOn(skipBlankLines(lines, textEnd), Append(cues, cue))

\* The main loop of parseVtt.
RECURSIVE parseVttLoop(_, _, _)
parseVttLoop(lines, index, cues) ==
  IF index > Len(lines) THEN cues
  ELSE CHOOSE result \in
         {IF step.break THEN step.cues ELSE parseVttLoop(lines, step.index, step.cues) :
            step \in {parseVttStep(lines, index, cues)}} : TRUE

parseVtt(vttText) == parseVttLoop(normalizeVttLines(vttText), 1, <<>>)

\* The inner loop of parseVttWithHeader over the lines of a metadata block: it
\* returns the position reached and the header lines collected.
RECURSIVE headerBlock(_, _, _)
headerBlock(lines, index, headerLines) ==
  IF index > Len(lines) THEN [index |-> index, headerLines |-> headerLines]
  ELSE IF Trim(lines[index]) = <<>>
    THEN [index |-> index + 1, headerLines |-> Append(headerLines, lines[index])]
  ELSE IF Includes(lines[index], ARROW)
    THEN [index |-> index, headerLines |-> headerLines]
  ELSE headerBlock(lines, index + 1, Append(headerLines, lines[index]))

\* One iteration of the header extraction loop of parseVttWithHeader at
\* position index: the position and the header lines it leaves, and whether it
\* left the loop by `break`.
headerStep(lines, index, headerLines) ==
  LET line == lines[index]
      block == headerBlock(lines, index + 1, Append(headerLines, line))
      goOn(nextIndex, nextLines) ==
        [index |-> nextIndex, headerLines |-> nextLines, break |-> FALSE]
  IN IF isSignature(line) THEN goOn(index + 1, Append(headerLines, line))
     ELSE IF isMetadataBlock(line) THEN goOn(block.index, block.headerLines)
     ELSE IF Trim(line) = <<>> /\ Len(headerLines) > 0
       THEN goOn(index + 1, Append(headerLines, line))
     ELSE IF Includes(line, ARROW)
             \/ (index + 1 <= Len(lines) /\ Includes(lines[index + 1], ARROW))
       THEN [index |-> index, headerLines |-> headerLines, break |-> TRUE]
     ELSE goOn(index + 1, headerLines)

\* The header extraction loop of parseVttWithHeader.
RECURSIVE headerLoop(_, _, _)
headerLoop(lines, index, headerLines) ==
  IF index > Len(lines) THEN headerLines
  ELSE CHOOSE result \in
         {IF step.break THEN step.headerLines
          ELSE headerLoop(lines, step.index, step.headerLines) :
            step \in {headerStep(lines, index, headerLines)}} : TRUE

parseVttWithHeader(vttText) ==
  [header |-> Join(headerLoop(normalizeVttLines(vttText), 1, <<>>), <<NL>>),
   cues |-> parseVtt(vttText)]

joinCueLines(cue) ==
  LET idLines == IF cue.id # Undefined /\ cue.id # <<>> THEN <<cue.id>> ELSE <<>>
      settingsSegment ==
        IF cue.settings # Undefined /\ cue.settings # <<>> THEN <<SP>> \o cue.settings ELSE <<>>
      timing == cue.start \o <<SP>> \o ARROW \o <<SP>> \o cue.end \o settingsSegment
  IN Join(idLines \o <<timing>> \o Split(cue.text, <<NL>>), <<NL>>)

cueBlocks(cues) == [i \in 1..Len(cues) |-> joinCueLines(cues[i])]

withFinalNewline(document) ==
  IF EndsWith(document, <<NL>>) THEN document ELSE document \o <<NL>>

rebuildVtt(cues) ==
  LET body == Join(cueBlocks(cues), <<NL, NL>>)
      document == IF Len(body) > 0 THEN WEBVTT \o <<NL, NL>> \o body ELSE WEBVTT
  IN withFinalNewline(document)

rebuildVttWithHeader(header, cues) ==
  LET body == Join(cueBlocks(cues), <<NL, NL>>)
      normalizedHeader == Trim(header)
      document == IF Len(body) > 0 THEN normalizedHeader \o <<NL, NL>> \o body
                  ELSE normalizedHeader
  IN withFinalNewline(document)

\* ------------------------------------------------------------------------
\* shared/vtt-styling: tags of a cue text
\* ------------------------------------------------------------------------

\* The match of /<[^>]+>/ that starts at position i: the position of its closing
\* '>', or 0 when there is no match at i ('<', one or more characters that are
\* not '>', then '>').
tagEnd(text, i) ==
  LET closing == {j \in (i + 1)..Len(text) : text[j] = ">"}
      first == CHOOSE j \in closing : \A k \in closing : j <= k
  IN IF text[i] # "<" \/ closing = {} THEN 0
     ELSE IF first = i + 1 THEN 0
     ELSE first

\* vttText.replace(/<[^>]+>/g, ''), scanning from position i
RECURSIVE stripTagsFrom(_, _)
stripTagsFrom(text, i) ==
  IF i > Len(text) THEN <<>>
  ELSE IF tagEnd(text, i) # 0 THEN stripTagsFrom(text, tagEnd(text, i) + 1)
  ELSE <<text[i]>> \o stripTagsFrom(text, i + 1)

\* extractPlainText returning the text without the white space around it.
extractPlainTextTrimmed(text) == Trim(stripTagsFrom(text, 1))

extractPlainText(text) == stripTagsFrom(text, 1)

\* The while loop of replaceTextPreservingTags with tagRegex.exec: the tag and
\* text segments of `original` from scan position i, the text not yet pushed
\* starting at currentIndex.
RECURSIVE tagSegments(_, _, _)
tagSegments(original, i, currentIndex) ==
  IF i > Len(original)
  THEN IF currentIndex <= Len(original)
       THEN <<[type |-> "text", content |-> SubSeq(original, currentIndex, Len(original))]>>
       ELSE <<>>
  ELSE IF tagEnd(original, i) # 0
  THEN (IF i > currentIndex
        THEN <<[type |-> "text", content |-> SubSeq(original, currentIndex, i - 1)]>>
        ELSE <<>>)
       \o <<[type |-> "tag", content |-> SubSeq(original, i, tagEnd(original, i))]>>
       \o tagSegments(original, tagEnd(original, i) + 1, tagEnd(original, i) + 1)
  ELSE tagSegments(original, i + 1, currentIndex)

\* segments.filter(s => s.type === 'text').map(s => s.content).join('')
RECURSIVE segmentsPlainText(_)
segmentsPlainText(segments) ==
  IF segments = <<>> THEN <<>>
  ELSE (IF Head(segments).type = "text" THEN Head(segments).content ELSE <<>>)
       \o segmentsPlainText(Tail(segments))

\* The for loop without translatedTextUsed: the translated text replaces the
\* first text segment and the later text segments stay.
RECURSIVE replaceSegmentsKeepingLaterText(_, _, _)
replaceSegmentsKeepingLaterText(segments, translatedPlainText, translatedTextUsed) ==
  IF segments = <<>> THEN <<>>
  ELSE IF Head(segments).type = "tag" \/ translatedTextUsed
  THEN Head(segments).content
       \o replaceSegmentsKeepingLaterText(Tail(segments), translatedPlainText, translatedTextUsed)
  ELSE translatedPlainText
       \o replaceSegmentsKeepingLaterText(Tail(segments), translatedPlainText, TRUE)

\* The for loop of replaceTextPreservingTags: tags are kept, the first text
\* segment becomes the translated text, later text segments are dropped.
RECURSIVE replaceSegments(_, _, _)
replaceSegments(segments, translatedPlainText, translatedTextUsed) ==
  IF segments = <<>> THEN <<>>
  ELSE IF Head(segments).type = "tag"
  THEN Head(segments).content
       \o replaceSegments(Tail(segments), translatedPlainText, translatedTextUsed)
  ELSE IF ~translatedTextUsed
  THEN translatedPlainText \o replaceSegments(Tail(segments), translatedPlainText, TRUE)
  ELSE replaceSegments(Tail(segments), translatedPlainText, translatedTextUsed)

\* replaceTextPreservingTags returning the translated text without the white
\* space around it when the original has no '<'.
replaceTextPreservingTagsTrimming(original, translatedPlainText) ==
  LET segments == tagSegments(original, 1, 1)
  IN IF ~Includes(original, <<"<">>) THEN Trim(translatedPlainText)
     ELSE IF Len(Trim(segmentsPlainText(segments))) = 0 THEN original
     ELSE replaceSegments(segments, translatedPlainText, FALSE)

replaceTextPreservingTags(original, translatedPlainText) ==
  LET segments == tagSegments(original, 1, 1)
  IN IF ~Includes(original, <<"<">>) THEN translatedPlainText
     ELSE IF Len(Trim(segmentsPlainText(segments))) = 0 THEN original
     ELSE replaceSegments(segments, translatedPlainText, FALSE)

\* ------------------------------------------------------------------------
\* shared/translation-adapter: pure helpers of translateTexts
\* ------------------------------------------------------------------------

SUPPORTED_TRANSLATION_PROVIDERS == {"openai", "mistral"}

\* The settings of an installation that stored none (provider and apiKey; the
\* base URL and the model do not enter any decision of translateTexts).
DEFAULT_TRANSLATION_SETTINGS == [provider |-> "openai", apiKey |-> ""]

MAX_SEGMENTS_PER_BATCH == 20
MIN_BATCH_SIZE == 1
MAX_BATCH_OVERRIDE == 50

Min(a, b) == IF a <= b THEN a ELSE b
Max(a, b) == IF a >= b THEN a ELSE b

\* deps.maxBatchSize is undefined, NaN, +Infinity, -Infinity or a finite number;
\* a finite number is kept in halves (halves = 5 is 2.5), which is enough to
\* tell Math.floor from rounding.
BatchUndefined == [kind |-> "undefined", halves |-> 0]
BatchNaN == [kind |-> "NaN", halves |-> 0]
BatchInfinity == [kind |-> "Infinity", halves |-> 0]
BatchNegInfinity == [kind |-> "-Infinity", halves |-> 0]
BatchNumber(h) == [kind |-> "number", halves |-> h]

sanitizeBatchSize(value) ==
  IF value.kind = "undefined" \/ value.kind = "NaN"
     \/ (value.kind = "number" /\ value.halves = 0)
  THEN MAX_SEGMENTS_PER_BATCH
  ELSE IF value.kind = "Infinity" THEN Max(MIN_BATCH_SIZE, MAX_BATCH_OVERRIDE)
  ELSE IF value.kind = "-Infinity" THEN MIN_BATCH_SIZE
  ELSE Max(MIN_BATCH_SIZE, Min(MAX_BATCH_OVERRIDE, value.halves \div 2))

\* chunkSegments with a slice one segment too long:
\* segments.slice(index, index + batchSize + 1).
RECURSIVE chunkSegmentsTooLong(_, _)
chunkSegmentsTooLong(segments, batchSize) ==
  IF segments = <<>> THEN <<>>
  ELSE <<SubSeq(segments, 1, Min(batchSize + 1, Len(segments)))>>
       \o chunkSegmentsTooLong(
            SubSeq(segments, Min(batchSize + 1, Len(segments)) + 1, Len(segments)), batchSize)

\* segments.slice(index, index + batchSize) for index = 0, batchSize, 2 batchSize, ...
RECURSIVE chunkSegments(_, _)
chunkSegments(segments, batchSize) ==
  IF segments = <<>> THEN <<>>
  ELSE <<SubSeq(segments, 1, Min(batchSize, Len(segments)))>>
       \o chunkSegments(SubSeq(segments, Min(batchSize, Len(segments)) + 1, Len(segments)),
                        batchSize)

\* shouldSkipTranslation without the trim: text.length === 0.
shouldSkipEmptyOnly(text) == Len(text) = 0

shouldSkipTranslation(text) == Len(Trim(text)) = 0

\* request.texts.map((text, index) => ({ index, text })), indexes counted from 1
toSegments(texts) == [i \in 1..Len(texts) |-> [index |-> i, text |-> texts[i]]]

\* segments.filter((segment) => !shouldSkipTranslation(segment.text))
RECURSIVE translatableSegments(_)
translatableSegments(segments) ==
  IF segments = <<>> THEN <<>>
  ELSE IF shouldSkipTranslation(Head(segments).text) THEN translatableSegments(Tail(segments))
  ELSE <<Head(segments)>> \o translatableSegments(Tail(segments))

\* buildUserPayload(...).segments: the texts one provider request carries
payloadSegments(batch) == [i \in 1..Len(batch) |-> batch[i].text]

\* An entry of a provider's translations array that is not a string.
NonString == <<"non-string">>

\* translations.map((entry) => (typeof entry === 'string' ? entry : ''))
\* The entries taken as they come: no String check.
sanitizeEntryAsIs(entry) == entry

sanitizeEntry(entry) == IF entry = NonString THEN <<>> ELSE entry

sanitizeTranslations(translations) ==
  [i \in 1..Len(translations) |-> sanitizeEntry(translations[i])]

\* The scatter with the position in the batch taken for the position in the
\* request: translationSlots[index] = batchTranslations[index].
scatterByBatchPosition(slots, batch, batchTranslations) ==
  [i \in 1..Len(slots) |-> IF i <= Len(batch) THEN batchTranslations[i] ELSE slots[i]]

\* batch.forEach((segment, index) => { translationSlots[segment.index] = batchTranslations[index]; })
scatterBatch(slots, batch, batchTranslations) ==
  [i \in 1..Len(slots) |->
     IF \E k \in 1..Len(batch) : batch[k].index = i
     THEN batchTranslations[CHOOSE k \in 1..Len(batch) : batch[k].index = i]
     ELSE slots[i]]

\* The loop without the await (all batches requested at once, as with
\* Promise.all over the batches).
batchesIssuedAtOnce(batches, done) ==
  IF done = 0 THEN 1..Len(batches) ELSE {}

\* The for ... of loop of translateTexts awaits translateBatch before it takes
\* the next batch: with `done` batches completed, the batches whose request
\* is issued now.
batchesIssuedAfter(batches, done) ==
  IF done < Len(batches) THEN {done + 1} ELSE {}

\* new Error(message): a message is its fixed wording, then the numbers and the
\* word substituted into it.
Message(wording, nums, word) == [wording |-> wording, nums |-> nums, word |-> word]
Error(wording, nums, word) == [name |-> "Error", message |-> Message(wording, nums, word)]
NoError == [name |-> "none", message |-> Message("", <<>>, "")]

\* The checks of the settings without ensureApiKey.
settingsErrorProviderOnly(settings) ==
  IF settings.provider \notin SUPPORTED_TRANSLATION_PROVIDERS
  THEN Error("Unsupported translation provider: ", <<>>, settings.provider)
  ELSE NoError

\* ensureProvider / ensureApiKey: the error thrown, or NoError
settingsError(settings) ==
  IF settings.provider \notin SUPPORTED_TRANSLATION_PROVIDERS
  THEN Error("Unsupported translation provider: ", <<>>, settings.provider)
  ELSE IF settings.apiKey = ""
  THEN Error("Translation provider API key is required.", <<>>, "")
  ELSE NoError

\* A provider message content is missing (undefined, null, ''), a string, a list
\* of content parts, or a value of another type. The text it carries is JSON
\* text, kept parsed: malformed, an object without a translations array, or an
\* object with one.
JsonMalformed == [kind |-> "malformed", translations |-> <<>>]
JsonNoTranslations == [kind |-> "noTranslations", translations |-> <<>>]
JsonTranslations(t) == [kind |-> "translations", translations |-> t]

ContentMissing == [kind |-> "missing", parts |-> <<>>]
ContentOther == [kind |-> "other", parts |-> <<>>]
ContentString(json) == [kind |-> "string", parts |-> <<[hasText |-> TRUE, text |-> json]>>]
ContentParts(parts) == [kind |-> "parts", parts |-> parts]
PartWithoutText == [hasText |-> FALSE, text |-> JsonMalformed]
PartWithText(json) == [hasText |-> TRUE, text |-> json]

\* normalizeMessageContent: ok with the text, or the unsupported-payload error
normalizeMessageContent(content) ==
  LET textParts == {k \in 1..Len(content.parts) : content.parts[k].hasText}
      first == CHOOSE k \in textParts : \A j \in textParts : k <= j
      unsupported ==
        [ok |-> FALSE, text |-> JsonMalformed,
         error |-> Error("Translation provider returned an unsupported response payload.", <<>>, "")]
  IN IF content.kind = "string" THEN [ok |-> TRUE, text |-> content.parts[1].text, error |-> NoError]
     ELSE IF content.kind = "parts" /\ textParts # {}
       THEN [ok |-> TRUE, text |-> content.parts[first].text, error |-> NoError]
     ELSE unsupported

\* parseTranslationsJson without the length check: the translations are taken
\* as they come, a missing one read as ''.
parseTranslationsJsonUnchecked(content, expectedLength) ==
  LET sanitized == sanitizeTranslations(content.translations)
  IN IF content.kind = "malformed"
       THEN [ok |-> FALSE, translations |-> <<>>,
             error |-> Error("Translation provider returned malformed JSON.", <<>>, "")]
     ELSE IF content.kind # "translations"
       THEN [ok |-> FALSE, translations |-> <<>>,
             error |-> Error("Translation provider response is missing the translations array.", <<>>, "")]
     ELSE [ok |-> TRUE,
           translations |-> [i \in 1..expectedLength |->
                               IF i <= Len(sanitized) THEN sanitized[i] ELSE <<>>],
           error |-> NoError]

\* parseTranslationsJson: ok with the sanitized translations, or the error thrown
parseTranslationsJson(content, expectedLength) ==
  LET sanitized == sanitizeTranslations(content.translations)
  IN IF content.kind = "malformed"
       THEN [ok |-> FALSE, translations |-> <<>>,
             error |-> Error("Translation provider returned malformed JSON.", <<>>, "")]
     ELSE IF content.kind # "translations"
       THEN [ok |-> FALSE, translations |-> <<>>,
             error |-> Error("Translation provider response is missing the translations array.", <<>>, "")]
     ELSE IF Len(sanitized) # expectedLength
       THEN [ok |-> FALSE, translations |-> <<>>,
             error |-> Error("Translation provider returned %1 results for %2 requested segments.",
                             <<Len(sanitized), expectedLength>>, "")]
     ELSE [ok |-> TRUE, translations |-> sanitized, error |-> NoError]

\* translateBatch without the check for an empty message content.
readBatchTranslationsNoEmptyCheck(json, batch) ==
  LET normalized == normalizeMessageContent(json.content)
  IN IF ~normalized.ok
       THEN [ok |-> FALSE, translations |-> <<>>, error |-> normalized.error]
     ELSE parseTranslationsJson(normalized.text, Len(batch))

\* The part of translateBatch after `await response.json()`.
readBatchTranslations(json, batch) ==
  LET normalized == normalizeMessageContent(json.content)
  IN IF json.content.kind = "missing"
       THEN [ok |-> FALSE, translations |-> <<>>,
             error |-> Error("Translation provider returned an empty response.", <<>>, "")]
     ELSE IF ~normalized.ok
       THEN [ok |-> FALSE, translations |-> <<>>, error |-> normalized.error]
     ELSE parseTranslationsJson(normalized.text, Len(batch))

\* ------------------------------------------------------------------------
\* State
\* ------------------------------------------------------------------------

VARIABLES
  \* parseVtt / rebuildVtt exercised on one input text
  vttText,          \* the input text
  vttPc,            \* "start", "parsed", "rebuilt", "reparsed"; "header", "cues", "scanned"
  vttVariant,       \* "plain" (parseVtt, rebuildVtt) or "header" (the WithHeader pair)
  vttDoc,           \* the document parsed from vttText
  rebuilt,          \* the text rebuilt from vttDoc
  reparsed,         \* the cues parsed from rebuilt
  vttIndex,         \* the line position of a parse followed loop iteration by loop iteration
  vttHeaderLines,   \* the header lines that parse has collected
  vttIterations,    \* the loop iterations that parse has run
  \* one call of translateTexts
  adPc,             \* "idle", "awaitSettings", "awaitFetch", "awaitJson", "resolved", "rejected"
  texts,            \* request.texts: NotAnArray or TextList(a list of strings)
  requestedBatchSize, \* deps.maxBatchSize
  batchSize,        \* sanitizeBatchSize(deps.maxBatchSize)
  settings,         \* the settings loaded by this call
  translationSlots, \* the output array being filled
  batches,          \* chunkSegments(translatableSegments, batchSize)
  batchIndex,       \* the number of batches completed
  response,         \* the provider response whose body is being read
  outcome,          \* what the promise of translateTexts settled to
  settingsReads,    \* calls of loadSettingsFn
  fetchCalls,       \* the provider requests issued, in order
  fetchReplies,     \* the provider responses received, in order
  inFlight,         \* the batches whose provider request is outstanding
  adLogs,           \* the entries written by the adapter's log
  storedSettings,   \* the settings held by the storage area
  previousSettings, \* the settings the previous call of translateTexts worked with
  \* one run of runTranslationPipeline
  plPc,             \* "off", "idle", "awaitFetch", "awaitText", "awaitTranslate", "returned", "rejected"
  plDeps,           \* the injected collaborators
  plDoc,            \* the parsed source document
  plainTexts,       \* the plain text of every cue
  plResult,         \* the value the pipeline's promise resolved to
  subtitleFetches,  \* calls of fetchFn(request.url)
  translateCalls,   \* calls of translateTextsFn
  subtitleResponse, \* what fetchFn(request.url) settled to
  plTranslated,     \* what translateTextsFn(...) settled to
  plLogs,           \* the entries written by the background log
  \* one call of replaceTextPreservingTags
  stylePc,          \* "off", "start", "replaced"
  styleOriginal,    \* the argument `original`
  styleTranslated,  \* the argument `translatedPlainText`
  styleResult,      \* the text returned
  \* the background layer: onBeforeRequest listener and onMessage handler
  translationPromises, \* the Map from base URL to the pipeline run that serves it
  pipelineRuns,     \* every pipeline run started, with its request, origin and state
  handledMessages,  \* every runtime message handled: return value, sendResponse calls, run
  webRequestLog,    \* every request seen by the onBeforeRequest listener and what it did
  tabMessages,      \* the VTT_TRANSLATED messages sent to the tabs
  \* injectTranslatedTrack called repeatedly on one video
  videoTracks,      \* the track elements of the video, in document order
  startTracks,      \* the track elements the video started with
  injected,         \* what every call did: the track it returned and whether it appended
  \* one run of bootstrap
  bootPc,           \* "off", "waitForVideo", "firstVideo", "observing", "noVideo"
  documentVideos,   \* the video elements in the document
  processedVideos,  \* the WeakSet of videos processVideo has taken
  videoPc,          \* per video: "none", "awaitTrack", "awaitTranslation", "done"
  requestCalls,     \* per video: calls of requestTranslationFn
  processRuns,      \* per video: the callers whose processVideo call went past the guard
  bootVideo,        \* the video waitForVideoFn resolved with
  mutationPending,  \* a DOM mutation the observer has not yet been called back for
  videoResults      \* per video: what requestTranslationFn settled to and the inject calls

vttVars == <<vttText, vttPc, vttVariant, vttDoc, rebuilt, reparsed, vttIndex, vttHeaderLines,
            vttIterations>>
adVars == <<adPc, texts, requestedBatchSize, batchSize, settings, translationSlots, batches, batchIndex,
            response, outcome, settingsReads, fetchCalls, fetchReplies, inFlight, adLogs,
            storedSettings, previousSettings>>
plVars == <<plPc, plDeps, plDoc, plainTexts, plResult, subtitleFetches, translateCalls,
            subtitleResponse, plTranslated, plLogs>>
styleVars == <<stylePc, styleOriginal, styleTranslated, styleResult>>
bgVars == <<translationPromises, pipelineRuns, handledMessages, webRequestLog, tabMessages>>
csVars == <<videoTracks, startTracks, injected, bootPc, documentVideos, processedVideos, videoPc,
            requestCalls, processRuns, bootVideo, mutationPending, videoResults>>
vars == <<vttVars, adVars, plVars, styleVars, bgVars, csVars>>

\* A log entry: its wording, and the word (provider, URL), the numbers and the
\* raw texts it carries.
LogEntry(marker, word, nums, rawTexts) ==
  [marker |-> marker, word |-> word, nums |-> nums, texts |-> rawTexts]

\* ------------------------------------------------------------------------
\* Bounds and input pools
\* ------------------------------------------------------------------------

MaxVttLines == 3
MaxTexts == 3

\* All sequences over S of length at most n.
RECURSIVE SeqsUpTo(_, _)
SeqsUpTo(S, n) ==
  IF n = 0 THEN {<<>>}
  ELSE LET shorter == SeqsUpTo(S, n - 1)
       IN shorter \cup {Append(q, x) : q \in {r \in shorter : Len(r) = n - 1}, x \in S}

SeqsOfLen(S, n) == {q \in SeqsUpTo(S, n) : Len(q) = n}

\* The lines input texts are made of.
VttLinePool ==
  { <<>>,
    WEBVTT,
    NOTE,
    <<"a">>,
    <<"x", CR>>,
    <<"1", SP, "-", "-", ">", SP, "2">>,
    <<"S", "T", "Y", "L", "E", SP, "-", "-", ">", SP, "b">>,
    <<"3", "-", "-", ">", "4", SP, SP, "s", SP, "t">>,
    <<"<", "i", ">", "a", SP, "b", "<", "/", "i", ">">>,
    <<"-", "-", ">", SP, "2">>,
    <<"5", "-", "-", ">", "6", SP, "-", "-", ">", "7">>,
    <<"1", "-", "-", ">", "-", "-", ">", "2">>,
    <<"n", "o", "t", "e", SP, "-", "-", ">", SP, "2">> }

VttInputs == {Join(ls, <<NL>>) : ls \in SeqsUpTo(VttLinePool, MaxVttLines)}

\* ------------------------------------------------------------------------
\* Initial values of the three parts
\* ------------------------------------------------------------------------

\* request.texts: a value that is not an array (null, undefined), or a list
NotAnArray == [isArray |-> FALSE, items |-> <<>>]
TextList(items) == [isArray |-> TRUE, items |-> items]
NoSettings == [provider |-> "", apiKey |-> ""]
NoResponse == [status |-> 0, json |-> [parses |-> FALSE, content |-> ContentMissing]]
Pending == [status |-> "pending", value |-> <<>>, error |-> NoError]
NoDoc == [header |-> <<>>, cues |-> <<>>]
\* deps of runTranslationPipeline: translateTextsFn is translateTexts (called
\* with deps.maxBatchSize as given) or a stub; parseVttFn and rebuildVttFn are
\* the real functions or functions that throw.
PipelineDeps(translateTextsFn, maxBatchSize, parseThrows, rebuildThrows) ==
  [translateTextsFn |-> translateTextsFn, maxBatchSize |-> maxBatchSize,
   parseThrows |-> parseThrows, rebuildThrows |-> rebuildThrows]
NoDeps == PipelineDeps("translateTexts", BatchUndefined, FALSE, FALSE)
\* A result message: the text of `message` alone, or String(error), which for an
\* Error object is its name, ': ' and its message.
BareMessage(message) == [name |-> "", message |-> message]
ErrorString(error) == [name |-> error.name, message |-> error.message]
NoResult == [status |-> "pending", translatedVtt |-> <<>>, message |-> BareMessage(Message("", <<>>, ""))]

\* What `await fetchFn(request.url)` settled to: nothing yet, a response with
\* its status, or a rejection with its error.
NoSubtitleResponse == [settled |-> "pending", status |-> 0, error |-> NoError]
SubtitleResponded(status) == [settled |-> "resolved", status |-> status, error |-> NoError]
SubtitleFailed(error) == [settled |-> "rejected", status |-> 0, error |-> error]

VttIdle ==
  /\ vttText = <<>>
  /\ vttPc = "off"
  /\ vttVariant = "plain"
  /\ vttDoc = NoDoc
  /\ rebuilt = <<>>
  /\ reparsed = <<>>
  /\ vttIndex = 1
  /\ vttHeaderLines = <<>>
  /\ vttIterations = 0

AdapterIdle ==
  /\ adPc = "idle"
  /\ texts = TextList(<<>>)
  /\ requestedBatchSize = BatchUndefined
  /\ batchSize = MAX_SEGMENTS_PER_BATCH
  /\ settings = NoSettings
  /\ translationSlots = <<>>
  /\ batches = <<>>
  /\ batchIndex = 0
  /\ response = NoResponse
  /\ outcome = Pending
  /\ settingsReads = 0
  /\ fetchCalls = <<>>
  /\ fetchReplies = <<>>
  /\ inFlight = {}
  /\ adLogs = <<>>
  /\ previousSettings = NoSettings

PipelineOff(pc) ==
  /\ plPc = pc
  /\ plDeps = NoDeps
  /\ plDoc = NoDoc
  /\ plainTexts = <<>>
  /\ plResult = NoResult
  /\ subtitleFetches = 0
  /\ translateCalls = 0
  /\ subtitleResponse = NoSubtitleResponse
  /\ plTranslated = Pending
  /\ plLogs = <<>>

StylingIdle ==
  /\ stylePc = "off"
  /\ styleOriginal = <<>>
  /\ styleTranslated = <<>>
  /\ styleResult = <<>>

BackgroundIdle ==
  /\ translationPromises = <<>>
  /\ pipelineRuns = <<>>
  /\ handledMessages = <<>>
  /\ webRequestLog = <<>>
  /\ tabMessages = <<>>

InjectIdle ==
  /\ videoTracks = <<>>
  /\ startTracks = <<>>
  /\ injected = <<>>

BootstrapIdle ==
  /\ bootPc = "off"
  /\ documentVideos = {}
  /\ processedVideos = {}
  /\ videoPc = <<>>
  /\ requestCalls = <<>>
  /\ processRuns = <<>>
  /\ bootVideo = "null"
  /\ mutationPending = FALSE
  /\ videoResults = <<>>

ContentIdle == InjectIdle /\ BootstrapIdle

\* ------------------------------------------------------------------------
\* parse -> rebuild -> parse on one input text
\* ------------------------------------------------------------------------

InitVtt ==
  /\ vttText \in VttInputs
  /\ vttPc = "start"
  /\ vttVariant = "plain"
  /\ vttDoc = NoDoc
  /\ rebuilt = <<>>
  /\ reparsed = <<>>
  /\ vttIndex = 1
  /\ vttHeaderLines = <<>>
  /\ vttIterations = 0
  /\ AdapterIdle
  /\ storedSettings = DEFAULT_TRANSLATION_SETTINGS
  /\ PipelineOff("off")
  /\ StylingIdle
  /\ BackgroundIdle
  /\ ContentIdle

CallParseVtt ==
  /\ vttPc = "start"
  /\ vttPc' = "parsed"
  /\ vttVariant' = "plain"
  /\ vttDoc' = [header |-> <<>>, cues |-> parseVtt(vttText)]
  /\ UNCHANGED <<vttText, rebuilt, reparsed, vttIndex, vttHeaderLines, vttIterations,
                 adVars, plVars, styleVars, bgVars, csVars>>

CallParseVttWithHeader ==
  /\ vttPc = "start"
  /\ vttPc' = "parsed"
  /\ vttVariant' = "header"
  /\ vttDoc' = parseVttWithHeader(vttText)
  /\ UNCHANGED <<vttText, rebuilt, reparsed, vttIndex, vttHeaderLines, vttIterations,
                 adVars, plVars, styleVars, bgVars, csVars>>

CallRebuildVtt ==
  /\ vttPc = "parsed"
  /\ vttVariant = "plain"
  /\ vttPc' = "rebuilt"
  /\ rebuilt' = rebuildVtt(vttDoc.cues)
  /\ UNCHANGED <<vttText, vttVariant, vttDoc, reparsed, vttIndex, vttHeaderLines, vttIterations,
                 adVars, plVars, styleVars, bgVars, csVars>>

CallRebuildVttWithHeader ==
  /\ vttPc = "parsed"
  /\ vttVariant = "header"
  /\ vttPc' = "rebuilt"
  /\ rebuilt' = rebuildVttWithHeader(vttDoc.header, vttDoc.cues)
  /\ UNCHANGED <<vttText, vttVariant, vttDoc, reparsed, vttIndex, vttHeaderLines, vttIterations,
                 adVars, plVars, styleVars, bgVars, csVars>>

CallReparse ==
  /\ vttPc = "rebuilt"
  /\ vttPc' = "reparsed"
  /\ reparsed' = parseVtt(rebuilt)
  /\ UNCHANGED <<vttText, vttVariant, vttDoc, rebuilt, vttIndex, vttHeaderLines, vttIterations,
                 adVars, plVars, styleVars, bgVars, csVars>>

NextVtt ==
  \/ CallParseVtt
  \/ CallParseVttWithHeader
  \/ CallRebuildVtt
  \/ CallRebuildVttWithHeader
  \/ CallReparse

SpecVtt == InitVtt /\ [][NextVtt]_vars

\* C1: for every input text, parsing the text rebuilt from the parsed cues (by
\* rebuildVtt, or by rebuildVttWithHeader with the parsed header) gives the cue
\* list of the first parse: same cues, same order, same id, start, end, settings
\* and text.
C1_RoundTrip == vttPc = "reparsed" => reparsed = vttDoc.cues

\* ------------------------------------------------------------------------
\* parseVtt and parseVttWithHeader followed loop iteration by loop iteration
\* ------------------------------------------------------------------------

\* The lines of the rebuilt text below the header and the blank line under it,
\* without the empty piece behind the final newline.
rebuiltBodyLines ==
  LET out == Split(rebuilt, <<NL>>)
      header == IF vttVariant = "plain" THEN WEBVTT ELSE Trim(vttDoc.header)
      above == Len(Split(header, <<NL>>)) + 1
  IN SubSeq(out, above + 1, Len(out) - 1)

\* C30: the rebuilt text ends with a newline, and below the header its blank
\* lines are the separators of consecutive cue blocks: one for each cue but the
\* first, no two of them next to each other, none behind the last block. (The
\* text of a parsed cue has no blank line of its own.)
C30_OneBlankLineBetweenBlocks ==
  vttPc = "rebuilt" =>
    /\ EndsWith(rebuilt, <<NL>>)
    /\ vttDoc.cues # <<>> =>
         LET body == rebuiltBodyLines
             blanks == {k \in 1..Len(body) : body[k] = <<>>}
         IN /\ Cardinality(blanks) = Len(vttDoc.cues) - 1
            /\ \A k \in blanks : k + 1 \notin blanks /\ k < Len(body)

\* The decomposition of a timing line as stated: the trimmed text before the
\* first '-->' is the start; the text after it is trimmed and split at its
\* first space into the end and, trimmed, the settings (absent when empty).
\* ok is FALSE when the start side or the end side is empty.
timingOf(line, afterArrow) ==
  LET arrowAt == IndexOf(line, ARROW)
      startSide == Trim(SubSeq(line, 1, arrowAt - 1))
      endSide == Trim(afterArrow)
      spaceAt == IndexOf(endSide, <<SP>>)
      rest == IF spaceAt = 0 THEN <<>> ELSE Trim(SubSeq(endSide, spaceAt + 1, Len(endSide)))
  IN [ok |-> startSide # <<>> /\ endSide # <<>>,
      start |-> startSide,
      end |-> IF spaceAt = 0 THEN endSide ELSE SubSeq(endSide, 1, spaceAt - 1),
      settings |-> IF rest = <<>> THEN Undefined ELSE rest]

timingAsStated(line) == timingOf(line, SubSeq(line, IndexOf(line, ARROW) + Len(ARROW), Len(line)))

\* The same with the text between the first '-->' and the next one, or the end
\* of the line when there is no other, for the text after the first '-->'.
timingUpToNextArrow(line) ==
  LET after == SubSeq(line, IndexOf(line, ARROW) + Len(ARROW), Len(line))
      nextAt == IndexOf(after, ARROW)
  IN timingOf(line, IF nextAt = 0 THEN after ELSE SubSeq(after, 1, nextAt - 1))

\* C29 as amended: as C29, with the text between the first '-->' and the next
\* '-->' of the line, if there is one, in the place of the text after the
\* first '-->'.
C29_TimingLineUpToNextArrow ==
  LET lines == normalizeVttLines(vttText)
  IN (/\ vttPc = "parsed"
      /\ Includes(lines[1], ARROW)
      /\ ~isSignature(lines[1])
      /\ ~isMetadataBlock(lines[1])) =>
       IF timingUpToNextArrow(lines[1]).ok
       THEN /\ vttDoc.cues # <<>>
            /\ vttDoc.cues[1].start = timingUpToNextArrow(lines[1]).start
            /\ vttDoc.cues[1].end = timingUpToNextArrow(lines[1]).end
            /\ vttDoc.cues[1].settings = timingUpToNextArrow(lines[1]).settings
       ELSE vttDoc.cues = parseVtt(Join(Tail(lines), <<NL>>))

\* parseVtt has returned the cue 5 --> 6 without settings for the line
\* '5-->6 -->7', with the cue 3 --> 4 of settings 's t' after it.
C29_Witness ==
  /\ vttPc = "parsed"
  /\ vttVariant = "plain"
  /\ vttText = <<"5", "-", "-", ">", "6", SP, "-", "-", ">", "7", NL, NL,
                 "3", "-", "-", ">", "4", SP, SP, "s", SP, "t">>
  /\ vttDoc.cues = << [id |-> Undefined, start |-> <<"5">>, end |-> <<"6">>,
                       settings |-> Undefined, text |-> <<>>],
                      [id |-> Undefined, start |-> <<"3">>, end |-> <<"4">>,
                       settings |-> <<"s", SP, "t">>, text |-> <<>>] >>

\* C29: a document that begins with a timing line parses to a first cue with
\* the start, end and settings of the line as stated; when the start side or
\* the end side of the line is empty the line gives no cue and the parse is
\* the parse of the lines that follow.
C29_TimingLine ==
  LET lines == normalizeVttLines(vttText)
  IN (/\ vttPc = "parsed"
      /\ Includes(lines[1], ARROW)
      /\ ~isSignature(lines[1])
      /\ ~isMetadataBlock(lines[1])) =>
       IF timingAsStated(lines[1]).ok
       THEN /\ vttDoc.cues # <<>>
            /\ vttDoc.cues[1].start = timingAsStated(lines[1]).start
            /\ vttDoc.cues[1].end = timingAsStated(lines[1]).end
            /\ vttDoc.cues[1].settings = timingAsStated(lines[1]).settings
       ELSE vttDoc.cues = parseVtt(Join(Tail(lines), <<NL>>))

MaxBlocks == 3

\* The blocks input documents are made of: two cues, a line that is nothing, a
\* timing line without a start, a note, the signature, and a timing line under
\* two lines that are none.
BlockPool ==
  { << <<"1", SP, "-", "-", ">", SP, "2">>, <<"a">> >>,
    << <<"i", "d">>, <<"3", "-", "-", ">", "4", SP, SP, "s", SP, "t">>,
       <<"<", "i", ">", "a", SP, "b", "<", "/", "i", ">">> >>,
    << <<"x">> >>,
    << <<"-", "-", ">", SP, "2">> >>,
    << NOTE, <<"n">> >>,
    << WEBVTT >>,
    << <<"A">>, <<"B">>, <<"5", "-", "-", ">", "6">> >> }

\* The lines of a document whose blocks are separated by one blank line.
RECURSIVE blockLines(_)
blockLines(blocks) ==
  IF blocks = <<>> THEN <<>>
  ELSE IF Len(blocks) = 1 THEN Head(blocks)
  ELSE Head(blocks) \o << <<>> >> \o blockLines(Tail(blocks))

ScanInputs == {Join(blockLines(blocks), <<NL>>) : blocks \in SeqsUpTo(BlockPool, MaxBlocks)}

InitScan ==
  /\ vttText \in ScanInputs
  /\ vttVariant \in {"plain", "header"}
  /\ vttPc = IF vttVariant = "header" THEN "header" ELSE "cues"
  /\ vttDoc = NoDoc
  /\ rebuilt = <<>>
  /\ reparsed = <<>>
  /\ vttIndex = 1
  /\ vttHeaderLines = <<>>
  /\ vttIterations = 0
  /\ AdapterIdle
  /\ storedSettings = DEFAULT_TRANSLATION_SETTINGS
  /\ PipelineOff("off")
  /\ StylingIdle
  /\ BackgroundIdle
  /\ ContentIdle

\* One iteration of the header loop of parseVttWithHeader (lines 152-203); on
\* `break` the header is joined and parseVtt starts (lines 205-206).
HeaderLoopIteration ==
  /\ vttPc = "header"
  /\ vttIndex <= Len(normalizeVttLines(vttText))
  /\ LET step == headerStep(normalizeVttLines(vttText), vttIndex, vttHeaderLines)
     IN /\ vttHeaderLines' = step.headerLines
        /\ vttIterations' = vttIterations + 1
        /\ IF step.break
           THEN /\ vttPc' = "cues"
                /\ vttIndex' = 1
                /\ vttDoc' = [vttDoc EXCEPT !.header = Join(step.headerLines, <<NL>>)]
           ELSE /\ vttPc' = "header"
                /\ vttIndex' = step.index
                /\ vttDoc' = vttDoc
  /\ UNCHANGED <<vttText, vttVariant, rebuilt, reparsed, adVars, plVars, styleVars, bgVars, csVars>>

\* The header loop ends at the end of the lines.
HeaderLoopExit ==
  /\ vttPc = "header"
  /\ vttIndex > Len(normalizeVttLines(vttText))
  /\ vttPc' = "cues"
  /\ vttIndex' = 1
  /\ vttDoc' = [vttDoc EXCEPT !.header = Join(vttHeaderLines, <<NL>>)]
  /\ UNCHANGED <<vttText, vttVariant, rebuilt, reparsed, vttHeaderLines, vttIterations,
                 adVars, plVars, styleVars, bgVars, csVars>>

\* One iteration of the main loop of parseVtt (lines 90-141).
CueLoopIteration ==
  /\ vttPc = "cues"
  /\ vttIndex <= Len(normalizeVttLines(vttText))
  /\ LET step == parseVttStep(normalizeVttLines(vttText), vttIndex, vttDoc.cues)
     IN /\ vttDoc' = [vttDoc EXCEPT !.cues = step.cues]
        /\ vttIndex' = step.index
        /\ vttPc' = IF step.break THEN "scanned" ELSE "cues"
        /\ vttIterations' = vttIterations + 1
  /\ UNCHANGED <<vttText, vttVariant, rebuilt, reparsed, vttHeaderLines, adVars, plVars,
                 styleVars, bgVars, csVars>>

\* The main loop ends at the end of the lines and the cues are returned.
CueLoopExit ==
  /\ vttPc = "cues"
  /\ vttIndex > Len(normalizeVttLines(vttText))
  /\ vttPc' = "scanned"
  /\ UNCHANGED <<vttText, vttVariant, vttDoc, rebuilt, reparsed, vttIndex, vttHeaderLines,
                 vttIterations, adVars, plVars, styleVars, bgVars, csVars>>

NextScan ==
  \/ HeaderLoopIteration
  \/ HeaderLoopExit
  \/ CueLoopIteration
  \/ CueLoopExit

SpecScan == InitScan /\ [][NextScan]_vars

\* The paragraphs of a document: the runs of lines between blank lines.
RECURSIVE paragraphsOf(_, _)
paragraphsOf(lines, current) ==
  IF lines = <<>> THEN (IF current = <<>> THEN <<>> ELSE <<current>>)
  ELSE IF \A k \in 1..Len(Head(lines)) : Head(lines)[k] \in WhiteSpace
    THEN (IF current = <<>> THEN <<>> ELSE <<current>>) \o paragraphsOf(Tail(lines), <<>>)
  ELSE paragraphsOf(Tail(lines), Append(current, Head(lines)))

\* A line with '-->' between a start and an end.
IsTiming(line) == Includes(line, ARROW) /\ parseTimeLine(line).ok

\* The cue a paragraph stands for, in a list: a timing line with the text
\* below it, with or without an identifier line above it, or under two lines
\* that are skipped; the empty list for a paragraph that is the signature, a
\* metadata block or anything else.
cueOfParagraph(p) ==
  LET timed(id, k) ==
        << [id |-> id, start |-> parseTimeLine(p[k]).start, end |-> parseTimeLine(p[k]).end,
            settings |-> parseTimeLine(p[k]).settings,
            text |-> Join(SubSeq(p, k + 1, Len(p)), <<NL>>)] >>
  IN IF isSignature(p[1]) \/ isMetadataBlock(p[1]) THEN <<>>
     ELSE IF IsTiming(p[1]) THEN timed(Undefined, 1)
     ELSE IF ~Includes(p[1], ARROW) /\ Len(p) >= 2 /\ IsTiming(p[2]) THEN timed(p[1], 2)
     ELSE IF Len(p) >= 3 /\ IsTiming(p[3]) THEN timed(Undefined, 3)
     ELSE <<>>

RECURSIVE cuesOfParagraphs(_)
cuesOfParagraphs(ps) ==
  IF ps = <<>> THEN <<>> ELSE cueOfParagraph(Head(ps)) \o cuesOfParagraphs(Tail(ps))

\* The timing, settings and text of the cues of a list.
timedTexts(cues) ==
  [k \in 1..Len(cues) |-> <<cues[k].start, cues[k].end, cues[k].settings, cues[k].text>>]

\* C19 (states): the line position stays within the lines or just behind
\* them, so no line is read that does not exist; each of the two loops runs at
\* most once per line, which bounds the run; the cues returned are the cues
\* of the well-formed paragraphs, in order: a paragraph that is not header,
\* metadata or a cue with a valid timing line is skipped and the cues before
\* and after it are parsed.
ScanSkipsMalformed ==
  /\ vttPc \in {"header", "cues", "scanned"} =>
       /\ vttIndex \in 1..(Len(normalizeVttLines(vttText)) + 1)
       /\ vttIterations <= 2 * Len(normalizeVttLines(vttText))
  /\ vttPc = "scanned" =>
       timedTexts(vttDoc.cues) =
         timedTexts(cuesOfParagraphs(paragraphsOf(normalizeVttLines(vttText), <<>>)))

\* C19 (steps): every iteration that stays in its loop moves the line
\* position forward.
ScanAdvances ==
  (vttPc \in {"header", "cues"} /\ vttPc' = vttPc) => vttIndex' > vttIndex

\* C19: parseVtt and parseVttWithHeader terminate on every input and never
\* raise: every loop iteration advances the line position, the number of
\* iterations is bounded by the number of lines, and a line that is not header, metadata, a valid timing line or cue text is
\* skipped while the cues before and after it are parsed.
C19_ParseTerminates ==
  /\ []ScanSkipsMalformed
  /\ [][ScanAdvances]_vars

\* parseVttWithHeader has returned two cues from a document with a timing line
\* without a start between them.
C19_Witness ==
  /\ vttPc = "scanned"
  /\ vttVariant = "header"
  /\ Len(vttDoc.cues) = 2
  /\ \E k \in 2..(Len(normalizeVttLines(vttText)) - 1) :
       /\ normalizeVttLines(vttText)[k] = <<"-", "-", ">", SP, "2">>
       /\ normalizeVttLines(vttText)[k - 1] = <<>>
       /\ normalizeVttLines(vttText)[k + 1] = <<>>
       /\ normalizeVttLines(vttText)[1] = <<"1", SP, "-", "-", ">", SP, "2">>
       /\ normalizeVttLines(vttText)[k + 2] = <<"i", "d">>

\* A line that parseVtt takes for a cue identifier when it scans it: not
\* blank, not the signature, not the start of a metadata block, without '-->'.
IsCandidateId(line) ==
  /\ Trim(line) # <<>>
  /\ ~isSignature(line)
  /\ ~isMetadataBlock(line)
  /\ ~Includes(line, ARROW)

\* C28 (steps): an iteration of the main loop that emits a cue gives it the
\* trimmed line directly above its timing line as id when that line is a
\* candidate identifier, and no id otherwise; an iteration on a candidate
\* identifier whose next line has no '-->' emits nothing and leaves the scan
\* at that next line.
CueIdAsStated ==
  (vttPc = "cues" /\ vttIndex <= Len(normalizeVttLines(vttText))) =>
    LET lines == normalizeVttLines(vttText)
        timeIndex == IF Includes(lines[vttIndex], ARROW) THEN vttIndex ELSE vttIndex + 1
    IN /\ Len(vttDoc'.cues) = Len(vttDoc.cues) + 1 =>
            vttDoc'.cues[Len(vttDoc'.cues)].id =
              (IF timeIndex > 1 /\ IsCandidateId(lines[timeIndex - 1])
               THEN Trim(lines[timeIndex - 1]) ELSE Undefined)
       /\ (/\ IsCandidateId(lines[vttIndex])
           /\ vttIndex + 1 <= Len(lines)
           /\ ~Includes(lines[vttIndex + 1], ARROW)) =>
            /\ vttIndex' = vttIndex + 1
            /\ vttDoc'.cues = vttDoc.cues

\* C28: the id of every cue parseVtt emits is the trimmed line directly above
\* its timing line when that line is not blank, has no '-->' and is not
\* header or metadata, and is absent otherwise; a candidate identifier whose
\* next line has no '-->' is discarded alone and the scan resumes at the next
\* line, so that in 'A', 'B', timing line the cue has the id 'B'.
C28_CueIdentifier == [][CueIdAsStated]_vars

\* ------------------------------------------------------------------------
\* replaceTextPreservingTags on cue texts built from tags, text and stray
\* angle brackets
\* ------------------------------------------------------------------------

MaxPieces == 4
MaxTranslatedLen == 2

\* What a cue text is put together from: an opening and a closing tag, a
\* letter, a blank and a '<' that opens no tag.
OriginalPieces == {<<"<", "i", ">">>, <<"<", "/", "i", ">">>, <<"a">>, <<SP>>, <<"<">>}

StyleOriginals == {Join(pieces, <<>>) : pieces \in SeqsUpTo(OriginalPieces, MaxPieces)}

\* Translated texts: short texts of a letter, the comparison signs, a blank
\* and a line break, and one text that carries a tag.
StyleTranslations ==
  SeqsUpTo({"b", "<", ">", SP, NL}, MaxTranslatedLen) \cup {<<"<", "b", ">">>}

InitStyling ==
  /\ VttIdle
  /\ AdapterIdle
  /\ storedSettings = DEFAULT_TRANSLATION_SETTINGS
  /\ PipelineOff("off")
  /\ stylePc = "start"
  /\ styleOriginal \in StyleOriginals
  /\ styleTranslated \in StyleTranslations
  /\ styleResult = <<>>
  /\ BackgroundIdle
  /\ ContentIdle

CallReplaceTextPreservingTags ==
  /\ stylePc = "start"
  /\ styleResult' = replaceTextPreservingTags(styleOriginal, styleTranslated)
  /\ stylePc' = "replaced"
  /\ UNCHANGED <<styleOriginal, styleTranslated, vttVars, adVars, plVars, bgVars, csVars>>

NextStyling == CallReplaceTextPreservingTags

SpecStyling == InitStyling /\ [][NextStyling]_vars

\* The matches of /<[^>]+>/g in a text, in order.
RECURSIVE segmentsTags(_)
segmentsTags(segments) ==
  IF segments = <<>> THEN <<>>
  ELSE (IF Head(segments).type = "tag" THEN <<Head(segments).content>> ELSE <<>>)
       \o segmentsTags(Tail(segments))

tagsOf(text) == segmentsTags(tagSegments(text, 1, 1))

\* C20: when the original cue text has at least one tag and text that is not
\* all whitespace, and the translated text has no tag, the result of
\* replaceTextPreservingTags has the tags of the original: the same tags, as
\* many, in the same order.
C20_TagsPreserved ==
  (/\ stylePc = "replaced"
   /\ tagsOf(styleOriginal) # <<>>
   /\ Len(Trim(extractPlainText(styleOriginal))) > 0
   /\ tagsOf(styleTranslated) = <<>>)
  => tagsOf(styleResult) = tagsOf(styleOriginal)

\* The tag and text fragments of a cue text, in order.
fragmentsOf(text) == tagSegments(text, 1, 1)

\* The tags among the fragments from..to of a cue text, one after the other.
RECURSIVE tagsBetween(_, _, _)
tagsBetween(fragments, from, to) ==
  IF from > to THEN <<>>
  ELSE (IF fragments[from].type = "tag" THEN fragments[from].content ELSE <<>>)
       \o tagsBetween(fragments, from + 1, to)

\* C21: when the original cue text has tags and text that is not all
\* whitespace, the result is every tag at its original place, the whole
\* translated text at the place of the first text fragment, and no other text
\* fragment of the original.
C21_TranslatedAtFirstText ==
  (/\ stylePc = "replaced"
   /\ tagsOf(styleOriginal) # <<>>
   /\ Len(Trim(extractPlainText(styleOriginal))) > 0)
  => LET fragments == fragmentsOf(styleOriginal)
         firstText == CHOOSE k \in 1..Len(fragments) :
                        /\ fragments[k].type = "text"
                        /\ \A j \in 1..(k - 1) : fragments[j].type = "tag"
     IN styleResult = tagsBetween(fragments, 1, firstText - 1)
                      \o styleTranslated
                      \o tagsBetween(fragments, firstText + 1, Len(fragments))

\* replaceTextPreservingTags('<i>a</i>a', 'b ') has returned '<i>b </i>': the
\* original has two text fragments, the second one is dropped.
C21_Witness ==
  /\ stylePc = "replaced"
  /\ styleOriginal = <<"<", "i", ">", "a", "<", "/", "i", ">", "a">>
  /\ styleTranslated = <<"b", SP>>
  /\ styleResult = <<"<", "i", ">", "b", SP, "<", "/", "i", ">">>

\* C22: when the original cue text contains no tag, the result is the
\* translated text, character for character.
C22_UntaggedOriginal ==
  (stylePc = "replaced" /\ tagsOf(styleOriginal) = <<>>) => styleResult = styleTranslated

\* replaceTextPreservingTags('a <', 'b\n') has returned 'b\n': the original has
\* a '<' and no tag, the translated text ends with a line break.
C22_Witness ==
  /\ stylePc = "replaced"
  /\ styleOriginal = <<"a", SP, "<">>
  /\ styleTranslated = <<"b", NL>>
  /\ styleResult = <<"b", NL>>

\* ------------------------------------------------------------------------
\* translateTexts: the environment (caller, settings storage, provider)
\* ------------------------------------------------------------------------

TextPool == {<<>>, <<SP>>, <<"a">>, <<"b">>}

Requests == {NotAnArray} \cup {TextList(t) : t \in SeqsUpTo(TextPool, MaxTexts)}

\* deps.maxBatchSize: undefined, NaN, 0, 1, 2.5, -5, 3, 51, +Infinity, -Infinity
MaxBatchSizes ==
  {BatchUndefined, BatchNaN, BatchInfinity, BatchNegInfinity}
    \cup {BatchNumber(h) : h \in {0, 2, 5, 0 - 10, 6, 102}}

\* What loadSettingsFn settles to: a rejection, or the stored settings.
StorageUnavailable == Error("Translation preferences storage is unavailable.", <<>>, "")
StorageReadError == Error("Unable to read translation preferences.", <<>>, "")
SettingsPool ==
  {[provider |-> "openai", apiKey |-> "key"],
   [provider |-> "mistral", apiKey |-> "key"],
   [provider |-> "mock-provider", apiKey |-> "key"],
   [provider |-> "openai", apiKey |-> ""]}

\* The entries a provider puts into a translations array.
AdapterEntryPool == {<<"A">>, <<"B">>, NonString}
PipelineEntryPool == {<<"A">>, <<NL, "5", SP, "-", "-", ">", SP, "6">>}
EntryPool == IF plPc = "off" THEN AdapterEntryPool ELSE PipelineEntryPool

\* A provider that translates every segment on its own.
translateSegment(text) == IF text = <<"a">> THEN <<"A">> ELSE <<"B">>
translateEach(segments) == [i \in 1..Len(segments) |-> translateSegment(segments[i])]

HttpResponse(status, parses, content) ==
  [status |-> status, json |-> [parses |-> parses, content |-> content]]

\* response.ok taken for "not a server error": status below 500.
okBelow500(status) == status < 500

\* response.ok
ok(status) == status >= 200 /\ status <= 299

\* The responses a provider may give to a request of m segments.
ProviderContents(segments) ==
  {ContentMissing, ContentOther, ContentParts(<<PartWithoutText>>),
   ContentString(JsonMalformed), ContentString(JsonNoTranslations),
   ContentParts(<<PartWithoutText, PartWithText(JsonTranslations(translateEach(segments)))>>)}
    \cup {ContentString(JsonTranslations(t)) : t \in SeqsUpTo(EntryPool, Len(segments) + 1)}

ProviderResponses(segments) ==
  {HttpResponse(500, FALSE, ContentMissing), HttpResponse(200, FALSE, ContentMissing)}
    \cup {HttpResponse(200, TRUE, c) : c \in ProviderContents(segments)}

NetworkError == [name |-> "TypeError", message |-> Message("Failed to fetch", <<>>, "")]
JsonSyntaxError == [name |-> "SyntaxError", message |-> Message("Unexpected token", <<>>, "")]

\* ------------------------------------------------------------------------
\* translateTexts: one action per stretch of code between two awaits
\* ------------------------------------------------------------------------

Resolved(value) == [status |-> "resolved", value |-> value, error |-> NoError]
Rejected(error) == [status |-> "rejected", value |-> <<>>, error |-> error]
\* A promise resolved with undefined where a list was expected.
ResolvedUndefined == [status |-> "resolved-undefined", value |-> <<>>, error |-> NoError]

\* The request of translateBatch for one batch.
ProviderRequest(n, batch, s) ==
  [batch |-> n, segments |-> payloadSegments(batch), provider |-> s.provider, apiKey |-> s.apiKey]

\* The requests issued when `done` batches are completed, in batch order.
RECURSIVE RequestsFor(_, _, _)
RequestsFor(issued, allBatches, s) ==
  IF issued = {} THEN <<>>
  ELSE LET n == CHOOSE k \in issued : \A j \in issued : k <= j
       IN <<ProviderRequest(n, allBatches[n], s)>> \o RequestsFor(issued \ {n}, allBatches, s)

\* translateTexts with the settings read before the texts are looked at.
translateTextsStartReadingSettings(request, maxBatchSize) ==
  /\ adPc = "idle"
  /\ texts' = request
  /\ requestedBatchSize' = maxBatchSize
  /\ batchSize' = sanitizeBatchSize(maxBatchSize)
  /\ adPc' = "awaitSettings"
  /\ outcome' = outcome
  /\ settingsReads' = settingsReads + 1
  /\ UNCHANGED <<settings, translationSlots, batches, batchIndex, response, fetchCalls,
                 fetchReplies, inFlight, adLogs, storedSettings, previousSettings>>

\* translateTexts up to its first await (lines 461-469).
translateTextsStart(request, maxBatchSize) ==
  /\ adPc = "idle"
  /\ texts' = request
  /\ requestedBatchSize' = maxBatchSize
  /\ batchSize' = sanitizeBatchSize(maxBatchSize)
  /\ IF ~request.isArray \/ Len(request.items) = 0
     THEN /\ adPc' = "resolved"
          /\ outcome' = Resolved(<<>>)
          /\ settingsReads' = settingsReads
     ELSE /\ adPc' = "awaitSettings"
          /\ outcome' = outcome
          /\ settingsReads' = settingsReads + 1
  /\ UNCHANGED <<settings, translationSlots, batches, batchIndex, response, fetchCalls,
                 fetchReplies, inFlight, adLogs, storedSettings, previousSettings>>

\* loadTranslationSettings with a cache: the settings of the previous call are
\* served again when there was one.
loadedSettingsCached(stored) == IF previousSettings # NoSettings THEN previousSettings ELSE stored

\* storageArea.get(DEFAULT_TRANSLATION_SETTINGS, ...) of loadTranslationSettings:
\* the settings as stored when the read completes.
loadedSettings(stored) == stored

\* loadSettingsFn rejects: translateTexts rejects with its error.
LoadSettingsRejects ==
  /\ adPc = "awaitSettings"
  /\ \E error \in {StorageUnavailable, StorageReadError} :
       /\ adPc' = "rejected"
       /\ outcome' = Rejected(error)
  /\ UNCHANGED <<texts, requestedBatchSize, batchSize, settings, translationSlots, batches, batchIndex, response,
                 settingsReads, fetchCalls, fetchReplies, inFlight, adLogs>>
  /\ UNCHANGED <<storedSettings, previousSettings, vttVars, plVars, styleVars, bgVars, csVars>>

\* The slots made one per translatable segment instead of one per text of the
\* request: request.texts.filter(...).map(() => '').
LoadSettingsResolvesSlotsPerSegment ==
  /\ adPc = "awaitSettings"
  /\ \E loaded \in {loadedSettings(storedSettings)} :
       LET segments == translatableSegments(toSegments(texts.items))
           slots == [i \in 1..Len(segments) |-> <<>>]
           chunks == chunkSegments(segments, batchSize)
           issued == batchesIssuedAfter(chunks, 0)
       IN /\ settings' = loaded
          /\ IF settingsError(loaded) # NoError
             THEN /\ adPc' = "rejected"
                  /\ outcome' = Rejected(settingsError(loaded))
                  /\ UNCHANGED <<translationSlots, batches, fetchCalls, inFlight, adLogs>>
             ELSE IF Len(segments) = 0
             THEN /\ adPc' = "resolved"
                  /\ outcome' = Resolved(slots)
                  /\ translationSlots' = slots
                  /\ UNCHANGED <<batches, fetchCalls, inFlight, adLogs>>
             ELSE /\ adPc' = "awaitFetch"
                  /\ outcome' = outcome
                  /\ translationSlots' = slots
                  /\ batches' = chunks
                  /\ fetchCalls' = fetchCalls \o RequestsFor(issued, chunks, loaded)
                  /\ inFlight' = inFlight \cup issued
                  /\ adLogs' = Append(adLogs,
                       LogEntry("Starting translation request.", loaded.provider,
                                <<Len(segments), Len(chunks)>>, <<>>))
  /\ UNCHANGED <<texts, requestedBatchSize, batchSize, batchIndex, response, settingsReads, fetchReplies>>
  /\ UNCHANGED <<storedSettings, previousSettings, vttVars, plVars, styleVars, bgVars, csVars>>

\* loadSettingsFn resolves, with the segments filtered before the settings are
\* validated: a request with nothing to translate resolves whatever the settings.
LoadSettingsResolvesFilteringFirst ==
  /\ adPc = "awaitSettings"
  /\ \E loaded \in {loadedSettings(storedSettings)} :
       LET slots == [i \in 1..Len(texts.items) |-> <<>>]
           segments == translatableSegments(toSegments(texts.items))
           chunks == chunkSegments(segments, batchSize)
           issued == batchesIssuedAfter(chunks, 0)
       IN /\ settings' = loaded
          /\ IF Len(segments) = 0
             THEN /\ adPc' = "resolved"
                  /\ outcome' = Resolved(slots)
                  /\ translationSlots' = slots
                  /\ UNCHANGED <<batches, fetchCalls, inFlight, adLogs>>
             ELSE IF settingsError(loaded) # NoError
             THEN /\ adPc' = "rejected"
                  /\ outcome' = Rejected(settingsError(loaded))
                  /\ UNCHANGED <<translationSlots, batches, fetchCalls, inFlight, adLogs>>
             ELSE /\ adPc' = "awaitFetch"
                  /\ outcome' = outcome
                  /\ translationSlots' = slots
                  /\ batches' = chunks
                  /\ fetchCalls' = fetchCalls \o RequestsFor(issued, chunks, loaded)
                  /\ inFlight' = inFlight \cup issued
                  /\ adLogs' = Append(adLogs,
                       LogEntry("Starting translation request.", loaded.provider,
                                <<Len(segments), Len(chunks)>>, <<>>))
  /\ UNCHANGED <<texts, requestedBatchSize, batchSize, batchIndex, response, settingsReads, fetchReplies>>
  /\ UNCHANGED <<storedSettings, previousSettings, vttVars, plVars, styleVars, bgVars, csVars>>

\* loadSettingsFn resolves: lines 469-496, up to the fetch of the first batch.
LoadSettingsResolves ==
  /\ adPc = "awaitSettings"
  /\ \E loaded \in {loadedSettings(storedSettings)} :
       LET slots == [i \in 1..Len(texts.items) |-> <<>>]
           segments == translatableSegments(toSegments(texts.items))
           chunks == chunkSegments(segments, batchSize)
           issued == batchesIssuedAfter(chunks, 0)
       IN /\ settings' = loaded
          /\ IF settingsError(loaded) # NoError
             THEN /\ adPc' = "rejected"
                  /\ outcome' = Rejected(settingsError(loaded))
                  /\ UNCHANGED <<translationSlots, batches, fetchCalls, inFlight, adLogs>>
             ELSE IF Len(segments) = 0
             THEN /\ adPc' = "resolved"
                  /\ outcome' = Resolved(slots)
                  /\ translationSlots' = slots
                  /\ UNCHANGED <<batches, fetchCalls, inFlight, adLogs>>
             ELSE /\ adPc' = "awaitFetch"
                  /\ outcome' = outcome
                  /\ translationSlots' = slots
                  /\ batches' = chunks
                  /\ fetchCalls' = fetchCalls \o RequestsFor(issued, chunks, loaded)
                  /\ inFlight' = inFlight \cup issued
                  /\ adLogs' = Append(adLogs,
                       LogEntry("Starting translation request.", loaded.provider,
                                <<Len(segments), Len(chunks)>>, <<>>))
  /\ UNCHANGED <<texts, requestedBatchSize, batchSize, batchIndex, response, settingsReads, fetchReplies>>
  /\ UNCHANGED <<storedSettings, previousSettings, vttVars, plVars, styleVars, bgVars, csVars>>

\* fetchFn rejects (no response): translateBatch, and with it translateTexts, rejects.
ProviderFetchRejects ==
  /\ adPc = "awaitFetch"
  /\ adPc' = "rejected"
  /\ outcome' = Rejected(NetworkError)
  /\ inFlight' = inFlight \ {batchIndex + 1}
  /\ UNCHANGED <<texts, requestedBatchSize, batchSize, settings, translationSlots, batches, batchIndex, response,
                 settingsReads, fetchCalls, fetchReplies, adLogs>>
  /\ UNCHANGED <<storedSettings, previousSettings, vttVars, plVars, styleVars, bgVars, csVars>>

\* fetchFn resolves with a response: lines 429-439 of translateBatch.
ProviderFetchResolves ==
  /\ adPc = "awaitFetch"
  /\ \E r \in ProviderResponses(payloadSegments(batches[batchIndex + 1])) :
       /\ fetchReplies' = Append(fetchReplies, r)
       /\ adLogs' = Append(adLogs,
            LogEntry("Translation provider response received.", settings.provider,
                     <<r.status, Len(batches[batchIndex + 1])>>, <<>>))
       /\ IF ~ok(r.status)
          THEN /\ adPc' = "rejected"
               /\ outcome' = Rejected(Error("Translation provider responded with status %1.",
                                            <<r.status>>, ""))
               /\ inFlight' = inFlight \ {batchIndex + 1}
               /\ response' = response
          ELSE /\ adPc' = "awaitJson"
               /\ outcome' = outcome
               /\ inFlight' = inFlight
               /\ response' = r
  /\ UNCHANGED <<texts, requestedBatchSize, batchSize, settings, translationSlots, batches, batchIndex,
                 settingsReads, fetchCalls>>
  /\ UNCHANGED <<storedSettings, previousSettings, vttVars, plVars, styleVars, bgVars, csVars>>

\* response.json() settles: lines 439-446 of translateBatch, then lines 497-503
\* of translateTexts up to the fetch of the next batch or the return.
ProviderBodyRead ==
  /\ adPc = "awaitJson"
  /\ LET batch == batches[batchIndex + 1]
         read == readBatchTranslations(response.json, batch)
         slots == scatterBatch(translationSlots, batch, read.translations)
         issued == batchesIssuedAfter(batches, batchIndex + 1)
     IN IF ~response.json.parses
        THEN /\ adPc' = "rejected"
             /\ outcome' = Rejected(JsonSyntaxError)
             /\ inFlight' = inFlight \ {batchIndex + 1}
             /\ UNCHANGED <<translationSlots, batchIndex, fetchCalls, adLogs>>
        ELSE IF ~read.ok
        THEN /\ adPc' = "rejected"
             /\ outcome' = Rejected(read.error)
             /\ inFlight' = inFlight \ {batchIndex + 1}
             /\ UNCHANGED <<translationSlots, batchIndex, fetchCalls, adLogs>>
        ELSE /\ translationSlots' = slots
             /\ batchIndex' = batchIndex + 1
             /\ fetchCalls' = fetchCalls \o RequestsFor(issued, batches, settings)
             /\ inFlight' = (inFlight \ {batchIndex + 1}) \cup issued
             /\ IF batchIndex + 1 < Len(batches)
                THEN /\ adPc' = "awaitFetch"
                     /\ outcome' = outcome
                     /\ adLogs' = adLogs
                ELSE /\ adPc' = "resolved"
                     /\ outcome' = Resolved(slots)
                     /\ adLogs' = Append(adLogs,
                          LogEntry("Translation completed.", settings.provider,
                                   <<Len(translatableSegments(toSegments(texts.items)))>>, <<>>))
  /\ UNCHANGED <<texts, requestedBatchSize, batchSize, settings, batches, response, settingsReads, fetchReplies>>
  /\ UNCHANGED <<storedSettings, previousSettings, vttVars, plVars, styleVars, bgVars, csVars>>

\* A direct call of translateTexts(request, deps).
CallTranslateTexts ==
  /\ adPc = "idle"
  /\ \E request \in Requests, maxBatchSize \in MaxBatchSizes :
       translateTextsStart(request, maxBatchSize)
  /\ UNCHANGED <<vttVars, plVars, styleVars, bgVars, csVars>>

InitAdapter ==
  /\ VttIdle
  /\ AdapterIdle
  /\ storedSettings \in SettingsPool
  /\ PipelineOff("off")
  /\ StylingIdle
  /\ BackgroundIdle
  /\ ContentIdle

NextAdapter ==
  \/ CallTranslateTexts
  \/ LoadSettingsRejects
  \/ LoadSettingsResolves
  \/ ProviderFetchRejects
  \/ ProviderFetchResolves
  \/ ProviderBodyRead

SpecAdapter == InitAdapter /\ [][NextAdapter]_vars

\* ------------------------------------------------------------------------
\* Claims about translateTexts (checked under SpecAdapter)
\* ------------------------------------------------------------------------

\* A text with at least one character that is not white space.
HasVisibleChar(text) == \E k \in 1..Len(text) : text[k] \notin WhiteSpace

\* The translatable texts of the request, in their original order.
RECURSIVE VisibleTexts(_)
VisibleTexts(items) ==
  IF items = <<>> THEN <<>>
  ELSE IF HasVisibleChar(Head(items)) THEN <<Head(items)>> \o VisibleTexts(Tail(items))
  ELSE VisibleTexts(Tail(items))

\* The number of translatable texts before position i.
VisibleBefore(items, i) == Cardinality({j \in 1..(i - 1) : HasVisibleChar(items[j])})

\* The translations array a provider response carries.
ReplyTranslations(reply) == normalizeMessageContent(reply.json.content).text.translations

\* The entry the provider returned for text i: text i is the
\* (VisibleBefore mod batchSize)-th segment of batch (VisibleBefore div batchSize).
ReturnedEntry(i) ==
  LET rank == VisibleBefore(texts.items, i)
  IN ReplyTranslations(fetchReplies[(rank \div batchSize) + 1])[(rank % batchSize) + 1]

\* Every response received answered each segment of its request on its own.
ProviderTranslatedEach ==
  \A n \in 1..Len(fetchReplies) :
    ReplyTranslations(fetchReplies[n]) = translateEach(fetchCalls[n].segments)

\* C2 as stated: a resolved call returns one entry per text; '' at every
\* white-space-only text, and at every other text the entry the provider
\* returned for it; with a provider that translates each segment on its own the
\* result does not depend on the batch size.
C2_ScatterAsStated ==
  (adPc = "resolved" /\ texts.isArray) =>
    /\ Len(outcome.value) = Len(texts.items)
    /\ \A i \in 1..Len(texts.items) :
         IF HasVisibleChar(texts.items[i])
         THEN outcome.value[i] = ReturnedEntry(i)
         ELSE outcome.value[i] = <<>>

\* C2 as amended: as C2, but an entry of the provider that is not a string is
\* delivered as ''.
C2_Scatter ==
  (adPc = "resolved" /\ texts.isArray) =>
    /\ Len(outcome.value) = Len(texts.items)
    /\ \A i \in 1..Len(texts.items) :
         IF HasVisibleChar(texts.items[i])
         THEN outcome.value[i] =
                (IF ReturnedEntry(i) = NonString THEN <<>> ELSE ReturnedEntry(i))
         ELSE outcome.value[i] = <<>>
    /\ ProviderTranslatedEach =>
         outcome.value = [i \in 1..Len(texts.items) |->
                            IF HasVisibleChar(texts.items[i])
                            THEN translateSegment(texts.items[i]) ELSE <<>>]

\* A call of three texts with a blank one in the middle, sent as two batches of
\* one segment, has resolved.
C2_Witness ==
  /\ adPc = "resolved"
  /\ batchSize = 1
  /\ texts = TextList(<< <<"a">>, <<SP>>, <<"b">> >>)
  /\ Len(fetchReplies) = 2
  /\ outcome.value = << <<"B">>, <<>>, <<"A">> >>

\* C3: at most one provider request is outstanding at any time; requests are
\* issued in batch order, and the request of batch n+1 is issued only when the
\* response of batch n has been received, validated and scattered.
C3_Sequential ==
  /\ Cardinality(inFlight) <= 1
  /\ \A n \in 1..Len(fetchCalls) : fetchCalls[n].batch = n
  /\ Len(fetchCalls) <= batchIndex + 1
  /\ Len(fetchCalls) <= Len(fetchReplies) + 1
  /\ \A n \in 1..(Len(fetchCalls) - 1) :
       LET read == readBatchTranslations(fetchReplies[n].json, batches[n])
       IN /\ ok(fetchReplies[n].status)
          /\ read.ok
          /\ \A k \in 1..Len(batches[n]) :
               translationSlots[batches[n][k].index] = read.translations[k]

\* The request of a second batch is outstanding.
C3_Witness ==
  /\ adPc = "awaitFetch"
  /\ Len(fetchCalls) = 2
  /\ inFlight = {2}

\* C4: a successful call with n translatable texts and batch size b issued
\* ceil(n / b) provider requests, each of at least 1 and at most b segments,
\* which concatenated in the order issued are the translatable texts in their
\* original order.
C4_BatchCount ==
  (adPc = "resolved" /\ texts.isArray) =>
    LET n == Len(VisibleTexts(texts.items))
        sizes == [k \in 1..Len(fetchCalls) |-> Len(fetchCalls[k].segments)]
        RECURSIVE Concat(_)
        Concat(calls) == IF calls = <<>> THEN <<>>
                         ELSE Head(calls).segments \o Concat(Tail(calls))
    IN /\ Len(fetchCalls) = (n + batchSize - 1) \div batchSize
       /\ \A k \in 1..Len(fetchCalls) : sizes[k] >= 1 /\ sizes[k] <= batchSize
       /\ Concat(fetchCalls) = VisibleTexts(texts.items)

\* Three translatable texts with batch size 2 were sent as requests of 2 and 1.
C4_Witness ==
  /\ adPc = "resolved"
  /\ batchSize = 2
  /\ Len(fetchCalls) = 2
  /\ Len(fetchCalls[1].segments) = 2
  /\ Len(fetchCalls[2].segments) = 1

\* The last response received carries a translations array whose length is not
\* the number of segments requested, and its body has been read.
LastReplyMismatch ==
  /\ adPc # "awaitJson"
  /\ fetchReplies # <<>>
  /\ LET reply == fetchReplies[Len(fetchReplies)]
     IN /\ ok(reply.status)
        /\ reply.json.parses
        /\ reply.json.content.kind # "missing"
        /\ normalizeMessageContent(reply.json.content).ok
        /\ normalizeMessageContent(reply.json.content).text.kind = "translations"
        /\ Len(ReplyTranslations(reply)) # Len(fetchCalls[Len(fetchReplies)].segments)

\* C5: a response with k translations for a batch of m segments, k # m, makes
\* translateTexts reject with an error naming k and m; nothing is delivered, not
\* even the translations of earlier batches, and no later batch is requested.
C5_MismatchRejects ==
  LastReplyMismatch =>
    /\ adPc = "rejected"
    /\ outcome.status = "rejected"
    /\ outcome.value = <<>>
    /\ outcome.error.message.nums =
         <<Len(ReplyTranslations(fetchReplies[Len(fetchReplies)])),
           Len(fetchCalls[Len(fetchReplies)].segments)>>
    /\ Len(fetchCalls) = Len(fetchReplies)
    /\ Len(fetchCalls) <= Len(batches)

\* The second of three batches was answered with two translations for one
\* segment, after the first batch had succeeded.
C5_Witness ==
  /\ LastReplyMismatch
  /\ Len(batches) = 3
  /\ Len(fetchReplies) = 2
  /\ Len(ReplyTranslations(fetchReplies[2])) = 2
  /\ translationSlots[batches[1][1].index] # <<>>

\* C9: a call whose texts are an empty array, or no array, resolves to []
\* without reading the settings and without a provider request.
C9_EmptyRequest ==
  (adPc # "idle" /\ (~texts.isArray \/ Len(texts.items) = 0)) =>
    /\ adPc = "resolved"
    /\ outcome = Resolved(<<>>)
    /\ settingsReads = 0
    /\ fetchCalls = <<>>
    /\ inFlight = {}

\* A call whose texts value is no array has resolved.
C9_Witness == adPc = "resolved" /\ ~texts.isArray

\* C10: no provider request carries an empty or white-space-only segment; a
\* call whose texts are all white-space-only issues no request, and with valid
\* settings it resolves to as many '' as it was given texts.
C10_NoBlankSegments ==
  /\ \A n \in 1..Len(fetchCalls) :
       \A k \in 1..Len(fetchCalls[n].segments) : HasVisibleChar(fetchCalls[n].segments[k])
  /\ (texts.isArray /\ \A i \in 1..Len(texts.items) : ~HasVisibleChar(texts.items[i])) =>
       /\ fetchCalls = <<>>
       /\ (adPc \notin {"idle", "awaitSettings"}
           /\ settings.provider \in {"openai", "mistral"} /\ settings.apiKey # "") =>
            /\ adPc = "resolved"
            /\ outcome = Resolved([i \in 1..Len(texts.items) |-> <<>>])

\* A call of two white-space-only texts has resolved.
C10_Witness ==
  /\ adPc = "resolved"
  /\ texts = TextList(<< <<SP>>, <<>> >>)
  /\ settings.apiKey = "key"

\* The call was given at least one text and its await of the settings is over.
SettingsAwaited ==
  /\ adPc \notin {"idle", "awaitSettings"}
  /\ texts.isArray
  /\ Len(texts.items) > 0

\* C11: when the settings storage is unavailable, the configured provider is
\* not a supported one, or the API key is empty, a call with at least one text
\* rejects (with the error of that case) without a provider request and without
\* a partial result.
C11_ConfigurationErrors ==
  SettingsAwaited =>
    /\ (settings = NoSettings) =>
         /\ adPc = "rejected"
         /\ outcome.error \in {StorageUnavailable, StorageReadError}
    /\ (settings # NoSettings /\ settings.provider \notin {"openai", "mistral"}) =>
         /\ adPc = "rejected"
         /\ outcome.error.message.wording = "Unsupported translation provider: "
         /\ outcome.error.message.word = settings.provider
    /\ (settings # NoSettings /\ settings.provider \in {"openai", "mistral"}
        /\ settings.apiKey = "") =>
         /\ adPc = "rejected"
         /\ outcome.error.message.wording = "Translation provider API key is required."
    /\ (settings.provider \notin {"openai", "mistral"} \/ settings.apiKey = "") =>
         /\ outcome = Rejected(outcome.error)
         /\ fetchCalls = <<>>
         /\ fetchReplies = <<>>
         /\ inFlight = {}
         /\ translationSlots = <<>>

\* A call with a translatable text found an empty API key and rejected.
C11_Witness ==
  /\ adPc = "rejected"
  /\ texts = TextList(<< <<"a">> >>)
  /\ settings = [provider |-> "openai", apiKey |-> ""]

\* The parts of a message content that carry a string text.
TextPartsOf(content) ==
  IF content.kind \in {"string", "parts"}
  THEN {k \in 1..Len(content.parts) : content.parts[k].hasText}
  ELSE {}

\* The JSON text of a message content that has one: the string itself, or the
\* text of the first part that carries one.
TextOf(content) ==
  content.parts[CHOOSE k \in TextPartsOf(content) : \A j \in TextPartsOf(content) : k <= j].text

\* The wording of the error a provider response must be refused with, "" for a
\* response that passes the checks of status, content, payload type, JSON and
\* translations array.
RefusalOf(reply) ==
  IF ~ok(reply.status) THEN "Translation provider responded with status %1."
  ELSE IF ~reply.json.parses THEN "Unexpected token"
  ELSE IF reply.json.content.kind = "missing"
    THEN "Translation provider returned an empty response."
  ELSE IF TextPartsOf(reply.json.content) = {}
    THEN "Translation provider returned an unsupported response payload."
  ELSE IF TextOf(reply.json.content).kind = "malformed"
    THEN "Translation provider returned malformed JSON."
  ELSE IF TextOf(reply.json.content).kind = "noTranslations"
    THEN "Translation provider response is missing the translations array."
  ELSE ""

\* C12: a batch response with a non-2xx status, without message content, with
\* content of an unsupported type, with text that is not JSON, or with JSON
\* that has no translations array makes translateTexts reject with the error of
\* that case; a response with a non-2xx status is refused before its body is
\* read; the call resolves only when every batch was answered by a response
\* that passes these checks and the length check.
C12_ResponseErrors ==
  /\ \A n \in 1..Len(fetchReplies) :
       LET reply == fetchReplies[n]
           last == n = Len(fetchReplies)
       IN /\ (~ok(reply.status)) =>
               /\ last
               /\ adPc = "rejected"
               /\ outcome.error.message.nums = <<reply.status>>
          /\ (RefusalOf(reply) # "" /\ ~(last /\ adPc = "awaitJson")) =>
               /\ last
               /\ adPc = "rejected"
               /\ outcome.status = "rejected"
               /\ outcome.error.message.wording = RefusalOf(reply)
  /\ adPc = "awaitJson" => ok(response.status) /\ response = fetchReplies[Len(fetchReplies)]
  /\ (adPc = "resolved" /\ texts.isArray) =>
       /\ Len(fetchReplies) = Len(batches)
       /\ \A n \in 1..Len(fetchReplies) :
            /\ RefusalOf(fetchReplies[n]) = ""
            /\ Len(TextOf(fetchReplies[n].json.content).translations) = Len(batches[n])

\* The second batch was answered without message content and the call rejected
\* with the error of an empty response.
C12_Witness ==
  /\ adPc = "rejected"
  /\ Len(fetchReplies) = 2
  /\ fetchReplies[2] = HttpResponse(200, TRUE, ContentMissing)
  /\ outcome.error.message.wording = "Translation provider returned an empty response."

\* ------------------------------------------------------------------------
\* Calls of translateTexts one after the other, with the options page changing
\* the stored settings at any time
\* ------------------------------------------------------------------------

\* The requests and batch size of these calls: one or two translatable texts,
\* one segment per batch.
SuccessiveRequests == {TextList(<< <<"a">> >>), TextList(<< <<"a">>, <<"b">> >>)}

CallTranslateTextsOneByOne ==
  /\ adPc = "idle"
  /\ \E request \in SuccessiveRequests : translateTextsStart(request, BatchNumber(2))
  /\ UNCHANGED <<vttVars, plVars, styleVars, bgVars, csVars>>

\* The options page saves other settings (storageArea.set).
ChangeSettings ==
  /\ \E saved \in SettingsPool \ {storedSettings} : storedSettings' = saved
  /\ UNCHANGED <<adPc, texts, requestedBatchSize, batchSize, settings, translationSlots,
                 batches, batchIndex, response, outcome, settingsReads, fetchCalls,
                 fetchReplies, inFlight, adLogs, previousSettings>>
  /\ UNCHANGED <<vttVars, plVars, styleVars, bgVars, csVars>>

\* The settled call is over: its locals (settings, slots, batches) are gone,
\* and the records kept of it start afresh for the next call.
CallIsOver ==
  /\ adPc \in {"resolved", "rejected"}
  /\ previousSettings' = settings
  /\ adPc' = "idle"
  /\ texts' = TextList(<<>>)
  /\ requestedBatchSize' = BatchUndefined
  /\ batchSize' = MAX_SEGMENTS_PER_BATCH
  /\ settings' = NoSettings
  /\ translationSlots' = <<>>
  /\ batches' = <<>>
  /\ batchIndex' = 0
  /\ response' = NoResponse
  /\ outcome' = Pending
  /\ settingsReads' = 0
  /\ fetchCalls' = <<>>
  /\ fetchReplies' = <<>>
  /\ inFlight' = {}
  /\ adLogs' = <<>>
  /\ UNCHANGED <<storedSettings, vttVars, plVars, styleVars, bgVars, csVars>>

NextSuccessive ==
  \/ CallTranslateTextsOneByOne
  \/ ChangeSettings
  \/ CallIsOver
  \/ LoadSettingsRejects
  \/ LoadSettingsResolves
  \/ ProviderFetchRejects
  \/ ProviderFetchResolves
  \/ ProviderBodyRead

SpecSuccessive == InitAdapter /\ [][NextSuccessive]_vars

\* C18 (states): a call with a non-empty texts array has read the settings
\* once, no provider request precedes the read, and every provider request of
\* the call carries the provider and the key of the one snapshot.
OneSettingsSnapshot ==
  /\ (adPc # "idle" /\ texts.isArray /\ Len(texts.items) > 0) => settingsReads = 1
  /\ adPc \in {"idle", "awaitSettings"} => fetchCalls = <<>>
  /\ \A n \in 1..Len(fetchCalls) :
       /\ fetchCalls[n].provider = settings.provider
       /\ fetchCalls[n].apiKey = settings.apiKey

\* C18 (steps): the snapshot a call works with is the stored settings as they
\* are when its read completes, whatever an earlier call worked with, and it
\* does not change while the call runs, whatever is stored meanwhile.
SnapshotTakenAtTheRead ==
  /\ (adPc = "awaitSettings" /\ adPc' # "awaitSettings" /\ settings' # NoSettings) =>
       settings' = storedSettings
  /\ adPc \in {"awaitFetch", "awaitJson"} => settings' = settings

\* C18: every call of translateTexts with a non-empty texts array reads the
\* settings exactly once, before any provider request, and uses that snapshot
\* for all its batches; nothing is kept from one call to the next, so settings
\* changed between two calls are the ones the second call uses.
C18_SettingsReadPerCall == []OneSettingsSnapshot /\ [][SnapshotTakenAtTheRead]_vars

\* A call that follows a call made with other settings has sent its second
\* batch with the settings stored at its own read, while the stored settings
\* have changed again since.
C18_Witness ==
  /\ previousSettings = [provider |-> "openai", apiKey |-> "key"]
  /\ settings = [provider |-> "mistral", apiKey |-> "key"]
  /\ storedSettings # settings
  /\ Len(fetchCalls) = 2
  /\ fetchCalls[2].provider = "mistral"

\* ------------------------------------------------------------------------
\* runTranslationPipeline: the environment (subtitle server, injected deps)
\* ------------------------------------------------------------------------

\* The subtitle documents the server may deliver.
SubtitlePool ==
  { <<>>,
    Join(<<WEBVTT, <<>>, <<"1", SP, "-", "-", ">", SP, "2">>, <<"a">>>>, <<NL>>),
    Join(<<WEBVTT, <<>>, <<"i", "d">>, <<"1", SP, "-", "-", ">", SP, "2">>,
           <<"<", "i", ">", "a", SP, "b", "<", "/", "i", ">">>, <<>>,
           <<"3", "-", "-", ">", "4", SP, SP, "s", SP, "t">>, <<"b">>, <<>>>>, <<NL>>),
    Join(<<NOTE, <<"a">>, <<"S", "T", "Y", "L", "E", SP, "-", "-", ">", SP, "b">>>>, <<NL>>),
    Join(<<WEBVTT, <<>>, <<"1", SP, "-", "-", ">", SP, "2">>, <<"<", "b", ">", "<", "/", "b", ">">>>>,
         <<NL>>),
    Join(<<WEBVTT, <<>>, STYLE, <<"c">>, <<>>, NOTE \o <<SP, "n">>, <<>>, <<"i", "d">>,
           <<"1", SP, "-", "-", ">", SP, "2">>, <<"a">>>>, <<NL>>),
    Join(<<WEBVTT, NOTE, <<"i", "d">>, <<"1", SP, "-", "-", ">", SP, "2">>, <<"a">>>>, <<NL>>) }

\* The HTTP statuses of the subtitle server's responses.
SubtitleStatuses == {200, 404}

\* The errors fetchFn(request.url) may reject with: the TypeError of fetch, or
\* new Error('offline').
OfflineError == Error("offline", <<>>, "")
SubtitleFetchErrors == {NetworkError, OfflineError}

DepsPool ==
  { NoDeps,
    PipelineDeps("translateTexts", BatchNumber(2), FALSE, FALSE),
    PipelineDeps("stub", BatchUndefined, FALSE, FALSE),
    PipelineDeps("stub", BatchUndefined, TRUE, FALSE),
    PipelineDeps("stub", BatchUndefined, FALSE, TRUE) }

\* What a stub translateTextsFn resolves to for n texts: any list of at most
\* n + 1 entries, an entry being a string or undefined.
StubTranslations(n) == SeqsUpTo(PipelineEntryPool \cup {Undefined}, n + 1)

StubError == Error("translation failed", <<>>, "")
ParseError == Error("parse failed", <<>>, "")
RebuildError == Error("rebuild failed", <<>>, "")
BodyReadError == [name |-> "TypeError", message |-> Message("Failed to read body", <<>>, "")]
NotAListError ==
  [name |-> "TypeError", message |-> Message("Cannot read properties of undefined", <<>>, "")]

\* String.prototype.substring(0, n)
Substring(s, n) == SubSeq(s, 1, Min(n, Len(s)))

\* ------------------------------------------------------------------------
\* runTranslationPipeline: one action per stretch of code between two awaits
\* ------------------------------------------------------------------------

\* The catch clause with a rejecting `throw error` in place of the return.
pipelineCatchRethrows(error, logged) ==
  /\ plPc' = "rejected"
  /\ plResult' = [status |-> "rejected", translatedVtt |-> <<>>, message |-> ErrorString(error)]
  /\ plLogs' = logged
  /\ subtitleFetches' = subtitleFetches

\* The catch clause starting the download again instead of returning.
pipelineCatchRetries(error, logged) ==
  /\ plPc' = "awaitFetch"
  /\ plResult' = plResult
  /\ plLogs' = Append(logged, LogEntry("Translation pipeline failed:", error.name,
                                       error.message.nums, <<>>))
  /\ subtitleFetches' = subtitleFetches + 1

\* The catch clause (lines 110-113); `logged` is the log as the try block left it.
pipelineCatch(error, logged) ==
  /\ plPc' = "returned"
  /\ plResult' = [status |-> "error", translatedVtt |-> <<>>, message |-> ErrorString(error)]
  /\ plLogs' = Append(logged, LogEntry("Translation pipeline failed:", error.name,
                                       error.message.nums, <<>>))
  /\ subtitleFetches' = subtitleFetches

\* log(message, request.url); return { status: 'error', message } (lines 45-47, 64-66)
pipelineReturnError(message, logged) ==
  /\ plPc' = "returned"
  /\ plResult' = [status |-> "error", translatedVtt |-> <<>>, message |-> BareMessage(message)]
  /\ plLogs' = Append(logged, LogEntry(message.wording, "url", message.nums, <<>>))
  /\ subtitleFetches' = subtitleFetches

\* cues.map((cue, index) => ({ ...cue, text: replaceTextPreservingTags(cue.text, translatedTexts[index] ?? '') }))
translateCues(cues, translatedTexts) ==
  [i \in 1..Len(cues) |->
     [cues[i] EXCEPT !.text =
        replaceTextPreservingTags(cues[i].text,
          IF translatedTexts[i] = Undefined THEN <<>> ELSE translatedTexts[i])]]

\* The entries of lines 91-98: the comparison of the first cue.
cueComparisonLogs(cues, plain, translatedTexts, translatedCues) ==
  IF Len(cues) = 0 THEN <<>>
  ELSE << LogEntry("=== CUE COMPARISON (first cue) ===", "", <<>>, <<>>),
          LogEntry("Original text:", "", <<>>, <<cues[1].text>>),
          LogEntry("Plain text extracted:", "", <<>>, <<plain[1]>>),
          LogEntry("Translated plain text:", "", <<>>, <<translatedTexts[1]>>),
          LogEntry("Final text with tags:", "", <<>>, <<translatedCues[1].text>>),
          LogEntry("===================================", "", <<>>, <<>>) >>

\* The tail of the pipeline without the count check: a short list is padded
\* with undefined, the entries beyond the last cue are ignored.
pipelineFinishWithoutCountCheck(translatedTexts) ==
  LET cues == plDoc.cues
      padded == [i \in 1..Len(cues) |->
                   IF i <= Len(translatedTexts) THEN translatedTexts[i] ELSE Undefined]
      translatedCues == translateCues(cues, padded)
      translatedVtt == rebuildVttWithHeader(plDoc.header, translatedCues)
  IN /\ plPc' = "returned"
     /\ plResult' = [status |-> "translated", translatedVtt |-> translatedVtt,
                     message |-> BareMessage(Message("", <<>>, ""))]
     /\ plLogs' = plLogs
     /\ subtitleFetches' = subtitleFetches

\* Lines 63-109: what follows `await translateTextsFn(...)` when it resolved
\* with a list.
pipelineFinish(translatedTexts) ==
  LET cues == plDoc.cues
      translatedCues == translateCues(cues, translatedTexts)
      compared == plLogs \o cueComparisonLogs(cues, plainTexts, translatedTexts, translatedCues)
      translatedVtt == rebuildVttWithHeader(plDoc.header, translatedCues)
  IN IF Len(translatedTexts) # Len(cues)
     THEN pipelineReturnError(
            Message("Translation output count mismatch (expected %1, received %2).",
                    <<Len(cues), Len(translatedTexts)>>, ""), plLogs)
     ELSE IF plDeps.rebuildThrows
     THEN pipelineCatch(RebuildError, compared)
     ELSE /\ plPc' = "returned"
          /\ plResult' = [status |-> "translated", translatedVtt |-> translatedVtt,
                          message |-> BareMessage(Message("", <<>>, ""))]
          /\ plLogs' = compared \o
               << LogEntry("Translation pipeline completed for", "url", <<>>, <<>>),
                  LogEntry("Header preview:", "", <<>>, <<Substring(plDoc.header, 200)>>),
                  LogEntry("Translated VTT preview:", "", <<>>, <<Substring(translatedVtt, 500)>>) >>
          /\ subtitleFetches' = subtitleFetches

\* runTranslationPipeline(request, deps) up to `await fetchFn(request.url)`.
CallRunTranslationPipeline ==
  /\ plPc = "idle"
  /\ \E deps \in DepsPool : plDeps' = deps
  /\ plPc' = "awaitFetch"
  /\ subtitleFetches' = subtitleFetches + 1
  /\ UNCHANGED <<plDoc, plainTexts, plResult, translateCalls, plLogs, subtitleResponse,
                 plTranslated, vttVars, adVars, styleVars, bgVars, csVars>>

\* fetchFn rejects (network failure).
SubtitleFetchRejects ==
  /\ plPc = "awaitFetch"
  /\ \E error \in SubtitleFetchErrors :
       /\ subtitleResponse' = SubtitleFailed(error)
       /\ pipelineCatch(error, plLogs)
  /\ UNCHANGED <<plDeps, plDoc, plainTexts, translateCalls, plTranslated, vttVars, adVars,
                 styleVars, bgVars, csVars>>

\* fetchFn resolves with a response (lines 44-50).
SubtitleFetchResolves ==
  /\ plPc = "awaitFetch"
  /\ \E status \in SubtitleStatuses :
       /\ subtitleResponse' = SubtitleResponded(status)
       /\ IF ~ok(status)
          THEN pipelineReturnError(Message("Unable to download subtitles (%1)", <<status>>, ""),
                                   plLogs)
          ELSE /\ plPc' = "awaitText"
               /\ UNCHANGED <<plResult, plLogs, subtitleFetches>>
  /\ UNCHANGED <<plDeps, plDoc, plainTexts, translateCalls, plTranslated, vttVars, adVars,
                 styleVars, bgVars, csVars>>

\* response.text() rejects.
SubtitleTextRejects ==
  /\ plPc = "awaitText"
  /\ pipelineCatch(BodyReadError, plLogs)
  /\ UNCHANGED <<plDeps, plDoc, plainTexts, translateCalls, subtitleResponse, plTranslated,
                 vttVars, adVars, styleVars, bgVars, csVars>>

\* response.text() resolves: lines 50-57, up to `await translateTextsFn(...)`.
SubtitleTextResolves ==
  /\ plPc = "awaitText"
  /\ \E body \in SubtitlePool :
       LET doc == parseVttWithHeader(body)
           plain == [i \in 1..Len(doc.cues) |-> extractPlainText(doc.cues[i].text)]
       IN /\ vttText' = body
          /\ IF plDeps.parseThrows
             THEN /\ pipelineCatch(ParseError, plLogs)
                  /\ UNCHANGED <<plDoc, plainTexts, translateCalls, adVars>>
             ELSE /\ plDoc' = doc
                  /\ plainTexts' = plain
                  /\ plLogs' = Append(plLogs, LogEntry("Starting translation pipeline for",
                                                       "url", <<Len(plain)>>, <<>>))
                  /\ translateCalls' = translateCalls + 1
                  /\ plPc' = "awaitTranslate"
                  /\ UNCHANGED <<plResult, subtitleFetches>>
                  /\ IF plDeps.translateTextsFn = "translateTexts"
                     THEN translateTextsStart(TextList(plain), plDeps.maxBatchSize)
                     ELSE UNCHANGED adVars
  /\ UNCHANGED <<plDeps, subtitleResponse, plTranslated, vttPc, vttVariant, vttDoc, rebuilt,
                 reparsed, vttIndex, vttHeaderLines, vttIterations, styleVars, bgVars, csVars>>

\* A stub translateTextsFn resolves.
StubTranslateResolves ==
  /\ plPc = "awaitTranslate"
  /\ plDeps.translateTextsFn = "stub"
  /\ \/ \E translatedTexts \in StubTranslations(Len(plDoc.cues)) :
          /\ plTranslated' = Resolved(translatedTexts)
          /\ pipelineFinish(translatedTexts)
     \/ /\ plTranslated' = ResolvedUndefined
        /\ pipelineCatch(NotAListError, plLogs)
  /\ UNCHANGED <<plDeps, plDoc, plainTexts, translateCalls, subtitleResponse, vttVars, adVars,
                 styleVars, bgVars, csVars>>

\* A stub translateTextsFn rejects.
StubTranslateRejects ==
  /\ plPc = "awaitTranslate"
  /\ plDeps.translateTextsFn = "stub"
  /\ plTranslated' = Rejected(StubError)
  /\ pipelineCatch(StubError, plLogs)
  /\ UNCHANGED <<plDeps, plDoc, plainTexts, translateCalls, subtitleResponse, vttVars, adVars,
                 styleVars, bgVars, csVars>>

\* The promise of translateTexts resolved.
AdapterTranslateResolved ==
  /\ plPc = "awaitTranslate"
  /\ plDeps.translateTextsFn = "translateTexts"
  /\ adPc = "resolved"
  /\ plTranslated' = outcome
  /\ pipelineFinish(outcome.value)
  /\ UNCHANGED <<plDeps, plDoc, plainTexts, translateCalls, subtitleResponse, vttVars, adVars,
                 styleVars, bgVars, csVars>>

\* The promise of translateTexts rejected.
AdapterTranslateRejected ==
  /\ plPc = "awaitTranslate"
  /\ plDeps.translateTextsFn = "translateTexts"
  /\ adPc = "rejected"
  /\ plTranslated' = outcome
  /\ pipelineCatch(outcome.error, plLogs)
  /\ UNCHANGED <<plDeps, plDoc, plainTexts, translateCalls, subtitleResponse, vttVars, adVars,
                 styleVars, bgVars, csVars>>

InitPipeline ==
  /\ VttIdle
  /\ AdapterIdle
  /\ storedSettings \in SettingsPool
  /\ PipelineOff("idle")
  /\ StylingIdle
  /\ BackgroundIdle
  /\ ContentIdle

NextPipeline ==
  \/ CallRunTranslationPipeline
  \/ SubtitleFetchRejects
  \/ SubtitleFetchResolves
  \/ SubtitleTextRejects
  \/ SubtitleTextResolves
  \/ StubTranslateResolves
  \/ StubTranslateRejects
  \/ AdapterTranslateResolved
  \/ AdapterTranslateRejected
  \/ LoadSettingsRejects
  \/ LoadSettingsResolves
  \/ ProviderFetchRejects
  \/ ProviderFetchResolves
  \/ ProviderBodyRead

SpecPipeline == InitPipeline /\ [][NextPipeline]_vars

\* ------------------------------------------------------------------------
\* Claims about runTranslationPipeline (checked under SpecPipeline)
\* ------------------------------------------------------------------------

\* C6: runTranslationPipeline never rejects: whatever the fetch, the body read,
\* the parse, the translation call and the rebuild do, the run, once over, has
\* resolved to a result whose status is 'translated' or 'error', and every
\* run that is not over is waiting for one of its awaits.
C6_NeverRejects ==
  /\ plPc \in {"idle", "awaitFetch", "awaitText", "awaitTranslate", "returned"}
  /\ plPc = "returned" <=> plResult.status \in {"translated", "error"}
  /\ plPc # "returned" => plResult = NoResult

\* A run whose injected rebuild function threw has returned an error result.
C6_Witness ==
  /\ plPc = "returned"
  /\ plDeps.rebuildThrows
  /\ plResult.status = "error"
  /\ plResult.message = ErrorString(RebuildError)

\* The id, start, end and settings of every cue, in order.
cueFrames(cues) ==
  [i \in 1..Len(cues) |->
     [id |-> cues[i].id, start |-> cues[i].start, end |-> cues[i].end,
      settings |-> cues[i].settings]]

\* C7: the translatedVtt of a successful run parses into as many cues as the
\* fetched source, cue i having the id, start, end and settings of cue i of the
\* source, whatever strings the translation function returned.
C7_CuesPreserved ==
  (plPc = "returned" /\ plResult.status = "translated") =>
    cueFrames(parseVttWithHeader(plResult.translatedVtt).cues) = cueFrames(plDoc.cues)

\* C8 (states): the subtitle URL is fetched at most once, translateTexts is
\* called at most once, no batch is requested twice, and a run that failed
\* leaves no request outstanding.
NoRepeatedRequest ==
  /\ subtitleFetches <= 1
  /\ translateCalls <= 1
  /\ settingsReads <= 1
  /\ \A n, k \in 1..Len(fetchCalls) : fetchCalls[n].batch = fetchCalls[k].batch => n = k
  /\ (plPc = "returned" \/ adPc = "rejected") => inFlight = {}

\* C8 (steps): once translateTexts has rejected or the run has returned, no
\* step issues a network request, and the result returned stays as it is.
NoRequestAfterFailure ==
  (plPc = "returned" \/ adPc = "rejected") =>
    /\ subtitleFetches' = subtitleFetches
    /\ translateCalls' = translateCalls
    /\ fetchCalls' = fetchCalls
    /\ settingsReads' = settingsReads
    /\ plPc = "returned" => plResult' = plResult

\* C8: there is no retry: one run fetches the subtitle URL at most once, calls
\* translateTexts at most once and requests each provider batch at most once;
\* after the first failure it makes no further network request and returns
\* exactly one error result.
C8_NoRetry == []NoRepeatedRequest /\ [][NoRequestAfterFailure]_vars

\* The second of two provider batches failed with an HTTP error, and the run
\* returned the error after one subtitle fetch and two provider requests.
C8_Witness ==
  /\ plPc = "returned"
  /\ plResult.status = "error"
  /\ subtitleFetches = 1
  /\ Len(batches) = 2
  /\ Len(fetchCalls) = 2
  /\ Len(fetchReplies) = 2
  /\ ~ok(fetchReplies[2].status)

\* C13: when the subtitle fetch returned a response with a status s outside
\* 200..299, the run has returned { status: 'error', message: 'Unable to
\* download subtitles (s)' } without reading the body, parsing, or calling the
\* translation function.
C13_DownloadError ==
  (subtitleResponse.settled = "resolved"
   /\ (subtitleResponse.status < 200 \/ subtitleResponse.status > 299)) =>
    /\ plPc = "returned"
    /\ plResult = [status |-> "error", translatedVtt |-> <<>>,
                   message |-> BareMessage(Message("Unable to download subtitles (%1)",
                                                   <<subtitleResponse.status>>, ""))]
    /\ vttText = <<>>
    /\ plDoc = NoDoc
    /\ plainTexts = <<>>
    /\ translateCalls = 0
    /\ adPc = "idle"
    /\ settingsReads = 0
    /\ fetchCalls = <<>>

\* The subtitle server answered 404 and the run returned.
C13_Witness ==
  /\ plPc = "returned"
  /\ subtitleResponse = SubtitleResponded(404)
  /\ plResult.status = "error"

\* C14: when the translation function resolved to a list whose length is not
\* the number of parsed cues, the run returns the error result that names both
\* counts, and no translated VTT.
C14_CountMismatch ==
  (plTranslated.status = "resolved" /\ Len(plTranslated.value) # Len(plDoc.cues)) =>
    /\ plPc = "returned"
    /\ plResult =
         [status |-> "error", translatedVtt |-> <<>>,
          message |-> BareMessage(
            Message("Translation output count mismatch (expected %1, received %2).",
                    <<Len(plDoc.cues), Len(plTranslated.value)>>, ""))]

\* Two cues were parsed and the translation function resolved to one text.
C14_Witness ==
  /\ plPc = "returned"
  /\ Len(plDoc.cues) = 2
  /\ plTranslated.status = "resolved"
  /\ Len(plTranslated.value) = 1
  /\ plResult.status = "error"

\* C15: when the subtitle fetch rejected with an Error whose message is m, the
\* run returns exactly { status: 'error', message: m }, the bare message.
C15_BareErrorMessage ==
  subtitleResponse.settled = "rejected" =>
    /\ plPc = "returned"
    /\ plResult = [status |-> "error", translatedVtt |-> <<>>,
                   message |-> BareMessage(subtitleResponse.error.message)]

\* C16: no log entry written by translateTexts or by runTranslationPipeline
\* carries raw subtitle text (original cue text, extracted plain text,
\* translated text, rebuilt VTT); entries carry markers, URLs, status codes,
\* the provider name and counts only.
C16_NoRawTextLogged ==
  /\ \A k \in 1..Len(adLogs) : adLogs[k].texts = <<>>
  /\ \A k \in 1..Len(plLogs) : plLogs[k].texts = <<>>

\* The positive finite requested sizes, and the whole number of a size kept in
\* halves.
IsFinitePositive(requested) == requested.kind = "number" /\ requested.halves > 0

\* C17: the effective batch size is clamp(requested, 1, 50) when the requested
\* size is a finite positive number (a fraction counted down to the whole
\* number below it), and 20 when it is unspecified, zero, negative, NaN or
\* infinite.
C17_EffectiveBatchSize ==
  adPc # "idle" =>
    IF IsFinitePositive(requestedBatchSize)
    THEN batchSize = (IF requestedBatchSize.halves < 2 THEN 1
                      ELSE IF requestedBatchSize.halves > 100 THEN 50
                      ELSE requestedBatchSize.halves \div 2)
    ELSE batchSize = 20

\* The replies that carry a translations array of the batch's length with an
\* entry that is not a string, and that translateBatch has finished with.
RepliesWithNonString ==
  {n \in 1..Len(fetchReplies) :
     /\ n < Len(fetchReplies) \/ adPc # "awaitJson"
     /\ RefusalOf(fetchReplies[n]) = ""
     /\ Len(ReplyTranslations(fetchReplies[n])) = Len(fetchCalls[n].segments)
     /\ \E k \in 1..Len(ReplyTranslations(fetchReplies[n])) :
          ReplyTranslations(fetchReplies[n])[k] = NonString}

\* C27: a translations array of the batch's length with an entry that is not
\* a string does not fail the batch: the batch is accepted, '' stands at the
\* position of that entry and the other entries stand unchanged at theirs.
C27_NonStringBecomesEmpty ==
  \A n \in RepliesWithNonString :
    /\ n <= batchIndex
    /\ \A k \in 1..Len(batches[n]) :
         translationSlots[batches[n][k].index] =
           (IF ReplyTranslations(fetchReplies[n])[k] = NonString THEN <<>>
            ELSE ReplyTranslations(fetchReplies[n])[k])

\* A call of two texts in one batch has resolved with ['', 'A'] from the
\* translations [non-string, 'A'].
C27_Witness ==
  /\ adPc = "resolved"
  /\ Len(fetchReplies) = 1
  /\ 1 \in RepliesWithNonString
  /\ ReplyTranslations(fetchReplies[1]) = <<NonString, <<"A">> >>
  /\ outcome.value = << <<>>, <<"A">> >>

\* ------------------------------------------------------------------------
\* The background layer: the onBeforeRequest listener with its
\* translationPromises cache, and the onMessage handler
\* ------------------------------------------------------------------------

\* A URL is the sequence of its parts, so that String.includes and
\* String.split('?') are computed part by part.
ARTE_HOST == "arte-cmafhls.akamaized.net"

urlIncludes(url, part) == \E i \in 1..Len(url) : url[i] = part

\* url.split('?')[0]
baseUrlOf(url) ==
  IF urlIncludes(url, "?")
  THEN SubSeq(url, 1, (CHOOSE i \in 1..Len(url) :
                         url[i] = "?" /\ \A j \in 1..(i - 1) : url[j] # "?") - 1)
  ELSE url

\* The test the listener puts a request through before it translates it.
isFrenchArteVtt(url) ==
  /\ urlIncludes(url, ".vtt")
  /\ urlIncludes(url, ARTE_HOST)
  /\ urlIncludes(url, "_st_VF") \/ urlIncludes(url, "_VF-")

\* The events the background layer receives: requests seen by the listener
\* and runtime messages.
MaxEvents == 3

FrenchUrl == <<"https://", ARTE_HOST, "/a", "_st_VF", ".vtt">>
RequestUrlPool ==
  { FrenchUrl,
    FrenchUrl \o <<"?", "token=1">>,
    <<"https://", ARTE_HOST, "/b", "_VF-", ".vtt">>,
    <<"https://", ARTE_HOST, "/a", "_st_VA", ".vtt">>,
    <<"https://", "example.com", "/a", "_st_VF", ".vtt">> }

TranslateVttMessage(url, sourceLanguage, targetLanguage) ==
  [type |-> "TRANSLATE_VTT", url |-> url, sourceLanguage |-> sourceLanguage,
   targetLanguage |-> targetLanguage]

MessagePool ==
  { TranslateVttMessage(FrenchUrl \o <<"?", "token=2">>, "fr", "en"),
    TranslateVttMessage(<<>>, "fr", "en"),
    TranslateVttMessage(FrenchUrl, "fr", ""),
    [type |-> "OTHER", url |-> <<>>, sourceLanguage |-> "", targetLanguage |-> ""],
    [type |-> "undefined", url |-> <<>>, sourceLanguage |-> "", targetLanguage |-> ""] }

TranslationResponse(status, translatedVtt, message) ==
  [status |-> status, translatedVtt |-> translatedVtt, message |-> message]

InvalidRequestResponse == TranslationResponse("error", "", "Invalid translation request.")

\* What a pipeline run settles to: a response it resolves with, or the value
\* it rejects with (an Error with its message, or another value).
RunResolved(result) == [state |-> "resolved", response |-> result, isError |-> FALSE, thrown |-> ""]
RunRejected(isError, thrown) ==
  [state |-> "rejected", response |-> TranslationResponse("", "", ""), isError |-> isError,
   thrown |-> thrown]
RunPending == [state |-> "pending", response |-> TranslationResponse("", "", ""), isError |-> FALSE,
               thrown |-> ""]

\* runTranslationPipeline resolves with a translated or an error response;
\* a pipeline injected through deps.pipeline may also reject.
PipelineResolutions ==
  { RunResolved(TranslationResponse("translated", "WEBVTT", "")),
    RunResolved(TranslationResponse("error", "", "Failed to fetch subtitles")) }
PipelineRejections == { RunRejected(TRUE, "fatal"), RunRejected(FALSE, "offline") }

hasRequiredFields(message) ==
  message.url # <<>> /\ message.sourceLanguage # "" /\ message.targetLanguage # ""

\* The value the handler returns for a message.
handlerReturn(message) ==
  IF message.type # "TRANSLATE_VTT" THEN "undefined"
  ELSE IF ~hasRequiredFields(message) THEN "false"
  ELSE "true"

\* The sendResponse calls the handler makes before it returns.
handlerSyncResponses(message) ==
  IF message.type = "TRANSLATE_VTT" /\ ~hasRequiredFields(message)
  THEN <<InvalidRequestResponse>>
  ELSE <<>>

\* A handler whose promise chain has no .catch.
handlerSettledResponsesDroppingRejection(settlement) ==
  IF settlement.state = "resolved" THEN <<settlement.response>>
  ELSE <<>>

\* The sendResponse calls of the handler's .then(...).catch(...) once the
\* pipeline has settled.
handlerSettledResponses(settlement) ==
  IF settlement.state = "resolved" THEN <<settlement.response>>
  ELSE <<TranslationResponse("error", "", settlement.thrown)>>

InitBackground ==
  /\ VttIdle
  /\ AdapterIdle
  /\ storedSettings = DEFAULT_TRANSLATION_SETTINGS
  /\ PipelineOff("off")
  /\ StylingIdle
  /\ BackgroundIdle
  /\ ContentIdle

PipelineRun(request, origin, message) ==
  [request |-> request, origin |-> origin, message |-> message, settlement |-> RunPending,
   followers |-> <<>>]

VttTranslated(url, result) ==
  [type |-> "VTT_TRANSLATED", url |-> url, translatedVtt |-> result.translatedVtt]

\* webRequest.onBeforeRequest: a French Arte subtitle request joins the run
\* cached under its base URL, or starts a run and caches it.
OnBeforeRequest(url) ==
  /\ Len(webRequestLog) + Len(handledMessages) < MaxEvents
  /\ LET baseUrl == baseUrlOf(url)
     IN IF ~isFrenchArteVtt(url)
        THEN /\ webRequestLog' = Append(webRequestLog, [url |-> url, did |-> "ignored"])
             /\ UNCHANGED <<translationPromises, pipelineRuns, tabMessages>>
        ELSE IF baseUrl \in DOMAIN translationPromises
        THEN LET run == translationPromises[baseUrl]
                 settlement == pipelineRuns[run].settlement
             IN /\ webRequestLog' = Append(webRequestLog, [url |-> url, did |-> "joined"])
                /\ IF settlement.state = "pending"
                   THEN /\ pipelineRuns' =
                             [pipelineRuns EXCEPT ![run].followers = Append(@, url)]
                        /\ UNCHANGED tabMessages
                   ELSE /\ tabMessages' =
                             (IF settlement.response.status = "translated"
                              THEN Append(tabMessages, VttTranslated(url, settlement.response))
                              ELSE tabMessages)
                        /\ UNCHANGED pipelineRuns
                /\ UNCHANGED translationPromises
        ELSE /\ webRequestLog' = Append(webRequestLog, [url |-> url, did |-> "started"])
             /\ pipelineRuns' =
                  Append(pipelineRuns,
                         PipelineRun([url |-> url, sourceLanguage |-> "fr",
                                      targetLanguage |-> "en"], "webRequest", 0))
             /\ translationPromises' =
                  [b \in DOMAIN translationPromises \cup {baseUrl} |->
                     IF b = baseUrl THEN Len(pipelineRuns) + 1 ELSE translationPromises[b]]
             /\ UNCHANGED tabMessages
  /\ UNCHANGED <<handledMessages, vttVars, adVars, plVars, styleVars, csVars>>

\* runtime.onMessage: the handler of createTranslateMessageHandler, up to its
\* return.
OnMessage(message) ==
  /\ Len(webRequestLog) + Len(handledMessages) < MaxEvents
  /\ LET returned == handlerReturn(message)
         run == IF returned = "true" THEN Len(pipelineRuns) + 1 ELSE 0
     IN /\ handledMessages' =
             Append(handledMessages,
                    [message |-> message, returned |-> returned,
                     responses |-> handlerSyncResponses(message), run |-> run])
        /\ pipelineRuns' =
             (IF returned = "true"
              THEN Append(pipelineRuns,
                          PipelineRun([url |-> message.url,
                                       sourceLanguage |-> message.sourceLanguage,
                                       targetLanguage |-> message.targetLanguage],
                                      "message", Len(handledMessages) + 1))
              ELSE pipelineRuns)
  /\ UNCHANGED <<translationPromises, webRequestLog, tabMessages, vttVars, adVars, plVars,
                 styleVars, csVars>>

\* The callbacks with translationPromises.delete(baseUrl) after every
\* settlement, the translated one included.
ListenerRunSettlesAlwaysDeleting(run, settlement) ==
  /\ run \in DOMAIN pipelineRuns
  /\ pipelineRuns[run].origin = "webRequest"
  /\ pipelineRuns[run].settlement.state = "pending"
  /\ pipelineRuns' = [pipelineRuns EXCEPT ![run].settlement = settlement]
  /\ LET url == pipelineRuns[run].request.url
         baseUrl == baseUrlOf(url)
         urls == <<url>> \o pipelineRuns[run].followers
     IN IF settlement.response.status = "translated"
        THEN /\ tabMessages' =
                  tabMessages \o [k \in 1..Len(urls) |-> VttTranslated(urls[k], settlement.response)]
             /\ translationPromises' =
                  [b \in DOMAIN translationPromises \ {baseUrl} |-> translationPromises[b]]
        ELSE /\ translationPromises' =
                  [b \in DOMAIN translationPromises \ {baseUrl} |-> translationPromises[b]]
             /\ UNCHANGED tabMessages
  /\ UNCHANGED <<handledMessages, webRequestLog, vttVars, adVars, plVars, styleVars, csVars>>

\* A run started by the listener settles, and the listener's callbacks run:
\* a translated response goes to the tab once for the request and once for
\* every request that joined; another response takes the run out of the
\* cache, and so does the .catch callback should the run reject.
ListenerRunSettles(run, settlement) ==
  /\ run \in DOMAIN pipelineRuns
  /\ pipelineRuns[run].origin = "webRequest"
  /\ pipelineRuns[run].settlement.state = "pending"
  /\ pipelineRuns' = [pipelineRuns EXCEPT ![run].settlement = settlement]
  /\ LET url == pipelineRuns[run].request.url
         baseUrl == baseUrlOf(url)
         urls == <<url>> \o pipelineRuns[run].followers
     IN IF settlement.response.status = "translated"
        THEN /\ tabMessages' =
                  tabMessages \o [k \in 1..Len(urls) |-> VttTranslated(urls[k], settlement.response)]
             /\ UNCHANGED translationPromises
        ELSE /\ translationPromises' =
                  [b \in DOMAIN translationPromises \ {baseUrl} |-> translationPromises[b]]
             /\ UNCHANGED tabMessages
  /\ UNCHANGED <<handledMessages, webRequestLog, vttVars, adVars, plVars, styleVars, csVars>>

\* A run started by the handler settles, and the handler's callbacks answer
\* the message.
HandlerRunSettles(run, settlement) ==
  /\ run \in DOMAIN pipelineRuns
  /\ pipelineRuns[run].origin = "message"
  /\ pipelineRuns[run].settlement.state = "pending"
  /\ pipelineRuns' = [pipelineRuns EXCEPT ![run].settlement = settlement]
  /\ handledMessages' =
       [handledMessages EXCEPT ![pipelineRuns[run].message].responses =
          @ \o handlerSettledResponses(settlement)]
  /\ UNCHANGED <<translationPromises, webRequestLog, tabMessages, vttVars, adVars, plVars,
                 styleVars, csVars>>

NextBackground ==
  \/ \E url \in RequestUrlPool : OnBeforeRequest(url)
  \/ \E message \in MessagePool : OnMessage(message)
  \/ \E run \in 1..MaxEvents,
        settlement \in PipelineResolutions \cup PipelineRejections :
       ListenerRunSettles(run, settlement)
  \/ \E run \in 1..MaxEvents,
        settlement \in PipelineResolutions \cup PipelineRejections :
       HandlerRunSettles(run, settlement)

SpecBackground == InitBackground /\ [][NextBackground]_vars

\* The pipeline runs in flight.
RunsInFlight == {run \in DOMAIN pipelineRuns : pipelineRuns[run].settlement.state = "pending"}

\* C23: across any interleaving of detected subtitle requests and
\* TRANSLATE_VTT messages, no two pipeline runs are in flight at the same
\* time for the same subtitle URL, compared without its query string.
C23_OneRunPerUrl ==
  \A r1, r2 \in RunsInFlight :
    r1 # r2 => baseUrlOf(pipelineRuns[r1].request.url) # baseUrlOf(pipelineRuns[r2].request.url)

\* The same, between the runs the onBeforeRequest listener started.
C23_OneListenerRunPerUrl ==
  \A r1, r2 \in RunsInFlight :
    r1 # r2 /\ pipelineRuns[r1].origin = "webRequest" /\ pipelineRuns[r2].origin = "webRequest"
      => baseUrlOf(pipelineRuns[r1].request.url) # baseUrlOf(pipelineRuns[r2].request.url)

\* The fields of a TRANSLATE_VTT message are all present.
AllPresent(message) ==
  message.url # <<>> /\ message.sourceLanguage # "" /\ message.targetLanguage # ""

\* The pipeline runs the handler started.
HandlerRuns == {run \in DOMAIN pipelineRuns : pipelineRuns[run].origin = "message"}

\* C24: every TRANSLATE_VTT message is answered exactly once. With url,
\* sourceLanguage and targetLanguage present the handler returns true, starts
\* the pipeline on them and calls sendResponse once after the pipeline has
\* settled, with the pipeline's result or with an error result carrying the
\* rejection message; with a field missing it has called sendResponse once
\* with 'Invalid translation request.' when it returns false, and starts no
\* pipeline; for any other message it returns undefined, never calls
\* sendResponse and starts no pipeline.
C24_AnsweredExactlyOnce ==
  /\ \A k \in DOMAIN handledMessages :
       LET handled == handledMessages[k]
           message == handled.message
       IN IF message.type # "TRANSLATE_VTT"
          THEN handled.returned = "undefined" /\ handled.responses = <<>> /\ handled.run = 0
          ELSE IF ~AllPresent(message)
          THEN /\ handled.returned = "false"
               /\ handled.responses =
                    <<[status |-> "error", translatedVtt |-> "",
                       message |-> "Invalid translation request."]>>
               /\ handled.run = 0
          ELSE /\ handled.returned = "true"
               /\ handled.run \in HandlerRuns
               /\ pipelineRuns[handled.run].message = k
               /\ pipelineRuns[handled.run].request =
                    [url |-> message.url, sourceLanguage |-> message.sourceLanguage,
                     targetLanguage |-> message.targetLanguage]
               /\ LET settlement == pipelineRuns[handled.run].settlement
                  IN CASE settlement.state = "pending" -> handled.responses = <<>>
                       [] settlement.state = "resolved" ->
                            handled.responses = <<settlement.response>>
                       [] settlement.state = "rejected" ->
                            handled.responses =
                              <<[status |-> "error", translatedVtt |-> "",
                                 message |-> settlement.thrown]>>
  /\ \A run \in HandlerRuns :
       /\ pipelineRuns[run].message \in DOMAIN handledMessages
       /\ handledMessages[pipelineRuns[run].message].run = run

\* A message with a missing field has been refused, and a complete one has
\* been answered with the message of the Error its pipeline rejected with.
C24_Witness ==
  /\ Len(handledMessages) = 2
  /\ handledMessages[1].message.type = "TRANSLATE_VTT"
  /\ handledMessages[1].message.targetLanguage = ""
  /\ handledMessages[1].returned = "false"
  /\ Len(handledMessages[1].responses) = 1
  /\ handledMessages[2].returned = "true"
  /\ pipelineRuns[handledMessages[2].run].settlement.state = "rejected"
  /\ pipelineRuns[handledMessages[2].run].settlement.isError
  /\ handledMessages[2].responses =
       <<[status |-> "error", translatedVtt |-> "", message |-> "fatal"]>>

\* ------------------------------------------------------------------------
\* The content script: injectTranslatedTrack called repeatedly on one video
\* ------------------------------------------------------------------------

UpperCaseLetters ==
  <<"A", "B", "C", "D", "E", "F", "G", "H", "I", "J", "K", "L", "M", "N", "O", "P", "Q", "R",
    "S", "T", "U", "V", "W", "X", "Y", "Z">>
LowerCaseLetters ==
  <<"a", "b", "c", "d", "e", "f", "g", "h", "i", "j", "k", "l", "m", "n", "o", "p", "q", "r",
    "s", "t", "u", "v", "w", "x", "y", "z">>

\* String.prototype.toLowerCase
toLowerCase(s) ==
  [i \in 1..Len(s) |->
     IF \E k \in 1..Len(UpperCaseLetters) : UpperCaseLetters[k] = s[i]
     THEN LowerCaseLetters[CHOOSE k \in 1..Len(UpperCaseLetters) : UpperCaseLetters[k] = s[i]]
     ELSE s[i]]

TRANSLATED_TRACK_LABEL ==
  <<"E", "n", "g", "l", "i", "s", "h", " ", "(", "t", "r", "a", "n", "s", "l", "a", "t", "e",
    "d", ")">>

\* A track element: its kind, label, srclang, src and default. The src of a
\* track the page brought is 0; createObjectURL returns a new URL at every
\* call, the number of the call.
Track(kind, label, srclang, src, default) ==
  [kind |-> kind, label |-> label, srclang |-> srclang, src |-> src, default |-> default]

\* The match of findExistingTranslatedTrack, letter case exactly as written.
findExistingTranslatedTrackExactCase(tracks) ==
  IF \E i \in 1..Len(tracks) :
       tracks[i].srclang = <<"e", "n">> /\ tracks[i].label = TRANSLATED_TRACK_LABEL
  THEN CHOOSE i \in 1..Len(tracks) :
         /\ tracks[i].srclang = <<"e", "n">> /\ tracks[i].label = TRANSLATED_TRACK_LABEL
         /\ \A j \in 1..(i - 1) :
              ~(tracks[j].srclang = <<"e", "n">> /\ tracks[j].label = TRANSLATED_TRACK_LABEL)
  ELSE 0

isTranslatedTrack(track) ==
  /\ toLowerCase(track.srclang) = <<"e", "n">>
  /\ toLowerCase(track.label) = toLowerCase(TRANSLATED_TRACK_LABEL)

\* The position of the first track that matches, 0 for null.
findExistingTranslatedTrack(tracks) ==
  IF \E i \in 1..Len(tracks) : isTranslatedTrack(tracks[i])
  THEN CHOOSE i \in 1..Len(tracks) :
         isTranslatedTrack(tracks[i]) /\ \A j \in 1..(i - 1) : ~isTranslatedTrack(tracks[j])
  ELSE 0

\* The tracks of the video after injectTranslatedTrack, the position of the
\* track it returned and whether it appended it.
injectTranslatedTrack(tracks, sourceTrack, translatedSrc) ==
  LET existingTranslatedTrack == findExistingTranslatedTrack(tracks)
      translatedTrack ==
        [(IF existingTranslatedTrack # 0 THEN tracks[existingTranslatedTrack] ELSE sourceTrack)
           EXCEPT !.src = translatedSrc, !.srclang = <<"e", "n">>,
                  !.label = TRANSLATED_TRACK_LABEL, !.default = TRUE]
  IN IF existingTranslatedTrack = 0
     THEN [tracks |-> Append(tracks, translatedTrack), track |-> Len(tracks) + 1,
           appended |-> TRUE]
     ELSE [tracks |-> [tracks EXCEPT ![existingTranslatedTrack] = translatedTrack],
           track |-> existingTranslatedTrack, appended |-> FALSE]

MaxTracks == 2
MaxInjections == 3

TrackLabels ==
  { TRANSLATED_TRACK_LABEL,
    <<"E", "N", "G", "L", "I", "S", "H", " ", "(", "T", "R", "A", "N", "S", "L", "A", "T", "E",
      "D", ")">>,
    <<"F", "r", "a", "n", "c", "a", "i", "s">>,
    <<>> }
TrackLanguages == { <<"e", "n">>, <<"E", "N">>, <<"f", "r">> }

PageTracks ==
  { Track("subtitles", label, srclang, 0, FALSE) : label \in TrackLabels, srclang \in TrackLanguages }

SourceTracks ==
  { Track("subtitles", <<"F", "r", "a", "n", "c", "a", "i", "s">>, <<"f", "r">>, 0, FALSE),
    Track("captions", <<"F", "R">>, <<>>, 0, TRUE) }

InitInject ==
  /\ VttIdle
  /\ AdapterIdle
  /\ storedSettings = DEFAULT_TRANSLATION_SETTINGS
  /\ PipelineOff("off")
  /\ StylingIdle
  /\ BackgroundIdle
  /\ BootstrapIdle
  /\ startTracks \in SeqsUpTo(PageTracks, MaxTracks)
  /\ videoTracks = startTracks
  /\ injected = <<>>

CallInjectTranslatedTrack(sourceTrack) ==
  /\ Len(injected) < MaxInjections
  /\ LET call == injectTranslatedTrack(videoTracks, sourceTrack, Len(injected) + 1)
     IN /\ videoTracks' = call.tracks
        /\ injected' = Append(injected, [track |-> call.track, appended |-> call.appended,
                                         src |-> Len(injected) + 1])
  /\ UNCHANGED <<startTracks, bootPc, documentVideos, processedVideos, videoPc, requestCalls,
                 processRuns, bootVideo, mutationPending, videoResults, vttVars, adVars, plVars,
                 styleVars, bgVars>>

NextInject == \E sourceTrack \in SourceTracks : CallInjectTranslatedTrack(sourceTrack)

SpecInject == InitInject /\ [][NextInject]_vars

\* The tracks labelled 'English (translated)' with srclang 'en'.
TranslatedTracksOf(tracks) ==
  {i \in 1..Len(tracks) :
     tracks[i].label = TRANSLATED_TRACK_LABEL /\ tracks[i].srclang = <<"e", "n">>}

\* The tracks whose label and srclang are those, letter case aside.
MatchingTracksOf(tracks) ==
  {i \in 1..Len(tracks) :
     /\ toLowerCase(tracks[i].label) = toLowerCase(TRANSLATED_TRACK_LABEL)
     /\ toLowerCase(tracks[i].srclang) = <<"e", "n">>}

\* C25 as stated: on a video that starts with at most one track labelled
\* 'English (translated)' with srclang 'en', the video has at most one such
\* track after any sequence of injectTranslatedTrack calls: the first call
\* appends one, and every later call updates that track's src instead of
\* appending another.
C25_AtMostOneTranslatedTrack ==
  Cardinality(TranslatedTracksOf(startTracks)) <= 1 =>
    /\ Cardinality(TranslatedTracksOf(videoTracks)) <= 1
    /\ \A k \in 1..Len(injected) :
         IF k = 1
         THEN injected[k].appended
         ELSE ~injected[k].appended /\ injected[k].track = injected[1].track
    /\ injected # <<>> =>
         /\ Len(videoTracks) = Len(startTracks) + 1
         /\ videoTracks[injected[1].track].src = Len(injected)

\* C25, amended: on a video that starts with at most one track whose label
\* and srclang are 'English (translated)' and 'en' letter case aside, the
\* video has at most one such track after any sequence of
\* injectTranslatedTrack calls, labelled exactly so once a call was made; a
\* call appends a track only when it is the first call and the video started
\* with none, and every other call updates the src of the one track instead
\* of appending another.
C25_AtMostOneMatchingTrack ==
  Cardinality(MatchingTracksOf(startTracks)) <= 1 =>
    /\ Cardinality(MatchingTracksOf(videoTracks)) <= 1
    /\ \A k \in 1..Len(injected) :
         /\ injected[k].appended <=> (k = 1 /\ MatchingTracksOf(startTracks) = {})
         /\ injected[k].track = injected[1].track
    /\ injected # <<>> =>
         /\ Len(videoTracks) =
              Len(startTracks) + (IF MatchingTracksOf(startTracks) = {} THEN 1 ELSE 0)
         /\ TranslatedTracksOf(videoTracks) = {injected[1].track}
         /\ MatchingTracksOf(videoTracks) = {injected[1].track}
         /\ videoTracks[injected[1].track].src = Len(injected)
         /\ videoTracks[injected[1].track].default
         /\ \A i \in 1..Len(startTracks) : i # injected[1].track => videoTracks[i] = startTracks[i]

\* Three calls were made on a video that started with a track labelled
\* 'ENGLISH (TRANSLATED)' with srclang 'EN': none appended, and that track
\* carries the src of the third call.
C25_Witness ==
  /\ Len(injected) = 3
  /\ Len(startTracks) = 2
  /\ MatchingTracksOf(startTracks) = {2}
  /\ TranslatedTracksOf(startTracks) = {}
  /\ Len(videoTracks) = 2
  /\ videoTracks[2].src = 3
  /\ videoTracks[2].label = TRANSLATED_TRACK_LABEL

\* ------------------------------------------------------------------------
\* The content script: one run of bootstrap
\* ------------------------------------------------------------------------

VideoElements == {"video1", "video2", "video3"}

\* A processVideo that does not consult processedVideos.
unprocessedVideosUnguarded(videos, processed) == videos

\* The videos that get past the processedVideos.has guards of processVideo
\* and processAvailableVideos.
unprocessedVideos(videos, processed) == videos \ processed

\* What the runtime message of requestTranslation settles to: a response, or
\* a rejection; NoReply when no message was sent.
MessageReply(kind, status, translatedVtt, message) ==
  [kind |-> kind, status |-> status, translatedVtt |-> translatedVtt, message |-> message]
NoReply == MessageReply("none", "", "", "")
TranslationReplies ==
  { MessageReply("response", "translated", "WEBVTT", ""),
    MessageReply("response", "translated", "", ""),
    MessageReply("response", "error", "", "Failed to fetch subtitles"),
    MessageReply("rejected", "", "", "Could not establish connection.") }

\* The src of the French track: absent, or a URL.
TrackSources == {"", "https://arte/a_st_VF.vtt"}

Null == "null"

\* !value for a string or null.
isFalsy(value) == value = Null \/ value = ""

\* requestTranslation with the message of an error response returned in place
\* of null.
requestTranslationReturningMessage(src, reply) ==
  IF src = "" THEN Null
  ELSE IF reply.kind = "rejected" THEN Null
  ELSE IF reply.status = "translated" THEN reply.translatedVtt
  ELSE reply.message

\* requestTranslation(track): null without a src, the translated text of a
\* translated response, null for another response and for a rejected message.
requestTranslation(src, reply) ==
  IF src = "" THEN Null
  ELSE IF reply.kind = "rejected" THEN Null
  ELSE IF reply.status = "translated" THEN reply.translatedVtt
  ELSE Null

\* No requestTranslationFn call has settled for the video.
NoVideoResult == [src |-> "", reply |-> NoReply, translatedVtt |-> Null, injectCalls |-> 0]

\* processVideo up to its first await, for the videos that get past the
\* guard: the video joins processedVideos and waitForFrenchTrackFn is called.
EnterProcessVideo(videos, caller) ==
  LET entering == unprocessedVideos(videos, processedVideos)
  IN /\ processedVideos' = processedVideos \cup entering
     /\ videoPc' = [v \in VideoElements |-> IF v \in entering THEN "awaitTrack" ELSE videoPc[v]]
     /\ processRuns' =
          [v \in VideoElements |->
             IF v \in entering THEN Append(processRuns[v], caller) ELSE processRuns[v]]

InitBootstrap ==
  /\ VttIdle
  /\ AdapterIdle
  /\ storedSettings = DEFAULT_TRANSLATION_SETTINGS
  /\ PipelineOff("off")
  /\ StylingIdle
  /\ BackgroundIdle
  /\ InjectIdle
  /\ bootPc = "waitForVideo"
  /\ documentVideos \in SUBSET VideoElements
  /\ processedVideos = {}
  /\ videoPc = [v \in VideoElements |-> "none"]
  /\ requestCalls = [v \in VideoElements |-> 0]
  /\ processRuns = [v \in VideoElements |-> <<>>]
  /\ bootVideo = "null"
  /\ mutationPending = FALSE
  /\ videoResults = [v \in VideoElements |-> NoVideoResult]

pageUnchanged == <<videoTracks, startTracks, injected, vttVars, adVars, plVars, styleVars, bgVars>>
bootUnchanged == <<pageUnchanged, videoResults>>

\* The page adds a video element; an installed observer is owed a callback.
AddVideo(video) ==
  /\ video \notin documentVideos
  /\ documentVideos' = documentVideos \cup {video}
  /\ mutationPending' = (mutationPending \/ bootPc = "observing")
  /\ UNCHANGED <<bootPc, processedVideos, videoPc, requestCalls, processRuns, bootVideo,
                 bootUnchanged>>

\* The page removes a video element.
RemoveVideo(video) ==
  /\ video \in documentVideos
  /\ documentVideos' = documentVideos \ {video}
  /\ mutationPending' = (mutationPending \/ bootPc = "observing")
  /\ UNCHANGED <<bootPc, processedVideos, videoPc, requestCalls, processRuns, bootVideo,
                 bootUnchanged>>

\* The page changes the document in another way while the observer is
\* installed.
OtherMutation ==
  /\ bootPc = "observing"
  /\ ~mutationPending
  /\ mutationPending' = TRUE
  /\ UNCHANGED <<bootPc, documentVideos, processedVideos, videoPc, requestCalls, processRuns,
                 bootVideo, bootUnchanged>>

\* waitForVideoFn resolves with a video of the document and bootstrap calls
\* processVideo on it; it resolves with null when the lookup timed out with
\* no video in the document, and bootstrap returns.
WaitForVideoResolves ==
  /\ bootPc = "waitForVideo"
  /\ IF documentVideos = {}
     THEN /\ bootPc' = "noVideo"
          /\ UNCHANGED <<processedVideos, videoPc, processRuns, bootVideo>>
     ELSE \E video \in documentVideos :
            /\ bootVideo' = video
            /\ bootPc' = "firstVideo"
            /\ EnterProcessVideo({video}, "bootstrap")
  /\ UNCHANGED <<documentVideos, requestCalls, mutationPending, bootUnchanged>>

\* waitForFrenchTrackFn(video) settles: with a track, and processVideo calls
\* requestTranslationFn; with null or a rejection, and processVideo returns.
TrackLookupSettles(video, found) ==
  /\ video \in VideoElements
  /\ videoPc[video] = "awaitTrack"
  /\ IF found
     THEN /\ videoPc' = [videoPc EXCEPT ![video] = "awaitTranslation"]
          /\ requestCalls' = [requestCalls EXCEPT ![video] = @ + 1]
     ELSE /\ videoPc' = [videoPc EXCEPT ![video] = "done"]
          /\ UNCHANGED requestCalls
  /\ UNCHANGED <<bootPc, documentVideos, processedVideos, processRuns, bootVideo,
                 mutationPending, bootUnchanged>>

\* requestTranslationFn(track) settles and processVideo returns, having
\* called injectTranslatedTrackFn when there is a translation.
TranslationSettles(video, src, reply) ==
  /\ video \in VideoElements
  /\ videoPc[video] = "awaitTranslation"
  /\ src = "" => reply = NoReply
  /\ videoPc' = [videoPc EXCEPT ![video] = "done"]
  /\ LET translatedVtt == requestTranslation(src, reply)
     IN videoResults' =
          [videoResults EXCEPT ![video] =
             [src |-> src, reply |-> reply, translatedVtt |-> translatedVtt,
              injectCalls |-> IF isFalsy(translatedVtt) THEN 0 ELSE 1]]
  /\ UNCHANGED <<bootPc, documentVideos, processedVideos, requestCalls, processRuns, bootVideo,
                 mutationPending, pageUnchanged>>

\* processVideo(video) has returned: bootstrap calls processAvailableVideos
\* and installs the observer.
BootstrapInstallsObserver ==
  /\ bootPc = "firstVideo"
  /\ videoPc[bootVideo] = "done"
  /\ EnterProcessVideo(documentVideos, "processAvailableVideos")
  /\ bootPc' = "observing"
  /\ UNCHANGED <<documentVideos, requestCalls, bootVideo, mutationPending, bootUnchanged>>

\* The observer's callback: processAvailableVideos.
MutationCallback ==
  /\ bootPc = "observing"
  /\ mutationPending
  /\ mutationPending' = FALSE
  /\ EnterProcessVideo(documentVideos, "observer")
  /\ UNCHANGED <<bootPc, documentVideos, requestCalls, bootVideo, bootUnchanged>>

NextBootstrap ==
  \/ \E video \in VideoElements : AddVideo(video)
  \/ \E video \in VideoElements : RemoveVideo(video)
  \/ OtherMutation
  \/ WaitForVideoResolves
  \/ \E video \in VideoElements, found \in BOOLEAN : TrackLookupSettles(video, found)
  \/ \E video \in VideoElements, src \in TrackSources, reply \in TranslationReplies \cup {NoReply} :
       TranslationSettles(video, src, reply)
  \/ BootstrapInstallsObserver
  \/ MutationCallback

SpecBootstrap == InitBootstrap /\ [][NextBootstrap]_vars

\* No video element is processed twice: processVideo goes past its guard at
\* most once per video, and requestTranslation is called at most once per
\* video.
AtMostOncePerVideo ==
  /\ \A video \in VideoElements :
       /\ Len(processRuns[video]) <= 1
       /\ requestCalls[video] <= Len(processRuns[video])
  /\ processedVideos = {video \in VideoElements : processRuns[video] # <<>>}

\* C26 as stated: within one bootstrap run every video element is processed
\* at most once, requestTranslation is called at most once per video element
\* however the mutation callbacks interleave with the pending lookups and
\* requests, and a video added after bootstrap is processed exactly once.
C26_EveryVideoProcessedOnce ==
  /\ AtMostOncePerVideo
  /\ bootPc \in {"observing", "noVideo"} /\ ~mutationPending =>
       \A video \in documentVideos : Len(processRuns[video]) = 1

\* C26, amended: the same, for a bootstrap run whose waitForVideo resolved
\* with a video: once the observer is installed, every video in the document
\* has been processed exactly once by the time the observer's callback for
\* its addition has run. A run whose waitForVideo resolved with null installs
\* no observer and processes no video.
C26_ProcessedOnceWhenObserving ==
  /\ AtMostOncePerVideo
  /\ bootPc = "observing" /\ ~mutationPending =>
       \A video \in documentVideos : Len(processRuns[video]) = 1
  /\ bootPc = "noVideo" => processedVideos = {}

\* video2 was added after the observer was installed, was processed by the
\* observer's callback, and requestTranslation was called for it once; no
\* callback is owed.
C26_Witness ==
  /\ bootPc = "observing"
  /\ ~mutationPending
  /\ processRuns["video1"] = <<"bootstrap">>
  /\ processRuns["video2"] = <<"observer">>
  /\ requestCalls["video2"] = 1
  /\ videoPc["video2"] = "done"
  /\ documentVideos = {"video1", "video2"}
  /\ processedVideos = VideoElements

\* C37: for every original cue text whose plain text is not whitespace-only
\* and every translated text that contains no '<', extracting the plain text
\* of replaceTextPreservingTags(original, translated) gives the translated
\* text back.
C37_ExtractAfterReplace ==
  /\ stylePc = "replaced"
  /\ ~Includes(styleTranslated, <<"<">>)
  /\ Len(Trim(extractPlainText(styleOriginal))) # 0
  => extractPlainText(styleResult) = styleTranslated

\* The original '<i>a</i>a' was given the translation 'b ', and the result
\* '<i>b </i>' has the plain text 'b '.
C37_Witness ==
  /\ stylePc = "replaced"
  /\ styleOriginal = <<"<", "i", ">", "a", "<", "/", "i", ">", "a">>
  /\ styleTranslated = <<"b", SP>>
  /\ styleResult = <<"<", "i", ">", "b", SP, "<", "/", "i", ">">>
  /\ extractPlainText(styleResult) = styleTranslated

\* The lines of a text that contain '-->'.
ArrowLines(lines) == {i \in 1..Len(lines) : Includes(lines[i], ARROW)}

\* The text of a timing line before its first '-->' and after it.
BeforeArrow(line) == SubSeq(line, 1, IndexOf(line, ARROW) - 1)
AfterArrow(line) == SubSeq(line, IndexOf(line, ARROW) + Len(ARROW), Len(line))

\* The lines C36 calls well-formed: '-->' with text on both sides, no WEBVTT,
\* NOTE, STYLE or REGION at the beginning, at the first line or under a blank
\* line.
WellFormedLines(lines) ==
  {i \in ArrowLines(lines) :
     /\ Trim(BeforeArrow(lines[i])) # <<>>
     /\ Trim(AfterArrow(lines[i])) # <<>>
     /\ \A keyword \in {WEBVTT, NOTE, STYLE, REGION} : ~StartsWith(lines[i], keyword)
     /\ i = 1 \/ Trim(lines[i - 1]) = <<>>}

\* The same with the text between the first '-->' and the next one for the
\* text after the '-->', and the keywords looked for in any letter case after
\* leading white space.
WellFormedLinesUpToNextArrow(lines) ==
  {i \in ArrowLines(lines) :
     /\ Trim(BeforeArrow(lines[i])) # <<>>
     /\ Trim(IF Includes(AfterArrow(lines[i]), ARROW)
             THEN BeforeArrow(AfterArrow(lines[i])) ELSE AfterArrow(lines[i])) # <<>>
     /\ \A keyword \in {WEBVTT, NOTE, STYLE, REGION} :
          ~StartsWith(ToUpperCase(Trim(lines[i])), keyword)
     /\ i = 1 \/ Trim(lines[i - 1]) = <<>>}

\* The cues come one each, in order, from lines that contain '-->', every line
\* of `required` among them.
CuesFromLines(cues, lines, required) ==
  /\ Len(cues) <= Cardinality(ArrowLines(lines))
  /\ \E from \in [1..Len(cues) -> ArrowLines(lines)] :
       /\ \A j, k \in 1..Len(cues) : j < k => from[j] < from[k]
       /\ \A k \in 1..Len(cues) : cues[k].start = Trim(BeforeArrow(lines[from[k]]))
       /\ \A i \in required : \E k \in 1..Len(cues) : from[k] = i

\* C36 as stated: parseVtt drops no well-formed cue. Every line that contains
\* '-->' with non-empty text on both sides, does not begin with WEBVTT, NOTE,
\* STYLE or REGION, and is the first line or directly under a blank line,
\* produces exactly one cue, and there are never more cues than lines that
\* contain '-->'.
C36_NoWellFormedCueDropped ==
  vttPc = "parsed" /\ vttVariant = "plain" =>
    CuesFromLines(vttDoc.cues, normalizeVttLines(vttText),
                  WellFormedLines(normalizeVttLines(vttText)))

\* C36, amended: the same for the lines whose text between the first '-->'
\* and the next '-->' (or the end of the line) is not blank, and that do not
\* begin, in any letter case and after leading white space, with WEBVTT, NOTE,
\* STYLE or REGION.
C36_NoCueDroppedUpToNextArrow ==
  vttPc = "parsed" /\ vttVariant = "plain" =>
    CuesFromLines(vttDoc.cues, normalizeVttLines(vttText),
                  WellFormedLinesUpToNextArrow(normalizeVttLines(vttText)))

\* 'NOTE', a blank line and '1 --> 2' were parsed: the timing line under the
\* blank line that the metadata block steps over gave the one cue.
C36_Witness ==
  /\ vttPc = "parsed"
  /\ vttVariant = "plain"
  /\ normalizeVttLines(vttText) = <<NOTE, <<>>, <<"1", SP, "-", "-", ">", SP, "2">> >>
  /\ WellFormedLinesUpToNextArrow(normalizeVttLines(vttText)) = {3}
  /\ Len(vttDoc.cues) = 1
  /\ vttDoc.cues[1].start = <<"1">>

\* The call is one of translateTexts on a non-empty array of texts that are
\* all whitespace-only, and the settings it loaded are in.
AllBlankCallWithSettings ==
  /\ adPc \notin {"idle", "awaitSettings"}
  /\ texts.isArray
  /\ Len(texts.items) > 0
  /\ \A i \in 1..Len(texts.items) : Trim(texts.items[i]) = <<>>
  /\ settings # NoSettings

\* C35: settings are loaded and validated before segments are filtered: a
\* call with a non-empty array of whitespace-only texts rejects with the
\* configuration error when the provider is unsupported or the API key is
\* empty, and no provider request is made; with valid settings it resolves
\* with an empty string for every text.
C35_SettingsValidatedFirst ==
  AllBlankCallWithSettings =>
    /\ settingsReads = 1
    /\ fetchCalls = <<>>
    /\ IF settings.provider \notin {"openai", "mistral"}
       THEN /\ adPc = "rejected"
            /\ outcome.error.message.wording = "Unsupported translation provider: "
       ELSE IF settings.apiKey = ""
       THEN /\ adPc = "rejected"
            /\ outcome.error.message.wording = "Translation provider API key is required."
       ELSE /\ adPc = "resolved"
            /\ outcome.value = [i \in 1..Len(texts.items) |-> <<>>]

\* The call with the texts ['', ' '] and an empty API key has rejected with
\* the key error.
C35_Witness ==
  /\ AllBlankCallWithSettings
  /\ texts.items = << <<>>, <<SP>> >>
  /\ settings.provider = "openai"
  /\ settings.apiKey = ""
  /\ adPc = "rejected"
  /\ outcome.error.message.wording = "Translation provider API key is required."

\* runTranslationPipeline, called with the real translateTexts, has returned
\* after translateTexts settled.
RealAdapterReturned ==
  /\ plPc = "returned"
  /\ plDeps.translateTextsFn = "translateTexts"
  /\ plTranslated.status \in {"resolved", "rejected"}

\* C34: every resolved call of translateTexts on an array has as many entries
\* as the array; so when runTranslationPipeline used the real translateTexts
\* its result never is the pipeline's own count-mismatch error, and a provider
\* reply with the wrong number of translations ends the run with the error the
\* adapter rejected with.
C34_RealAdapterKeepsCount ==
  /\ (adPc = "resolved" /\ texts.isArray) => Len(outcome.value) = Len(texts.items)
  /\ (RealAdapterReturned /\ plTranslated.status = "resolved") =>
       /\ Len(plTranslated.value) = Len(plDoc.cues)
       /\ plResult.status = "translated"
  /\ RealAdapterReturned =>
       plResult.message.message.wording #
         "Translation output count mismatch (expected %1, received %2)."
  /\ (RealAdapterReturned /\ LastReplyMismatch) =>
       /\ plTranslated.status = "rejected"
       /\ plResult.status = "error"
       /\ plResult.message = ErrorString(plTranslated.error)
       /\ plTranslated.error.message.nums =
            <<Len(ReplyTranslations(fetchReplies[Len(fetchReplies)])),
              Len(fetchCalls[Len(fetchReplies)].segments)>>

\* The run over a source of two cues returned the translated text after the
\* real translateTexts resolved with two entries from one provider request.
C34_Witness ==
  /\ RealAdapterReturned
  /\ plResult.status = "translated"
  /\ Len(plDoc.cues) = 2
  /\ Len(plTranslated.value) = 2
  /\ Len(fetchReplies) = 1

\* The run ended in the adapter's rejection after a provider reply with the
\* wrong number of translations.
C34_MismatchReached ==
  /\ RealAdapterReturned
  /\ LastReplyMismatch

\* ------------------------------------------------------------------------
\* The header of the translated text

\* How many lines of a sequence of lines are the given line.
CountLine(line, lines) == Cardinality({i \in 1..Len(lines) : lines[i] = line})

\* The position of the first line with '-->', or one past the end.
FirstTimingLine(lines) ==
  IF \E i \in 1..Len(lines) : Includes(lines[i], ARROW)
  THEN CHOOSE i \in 1..Len(lines) :
         /\ Includes(lines[i], ARROW)
         /\ \A j \in 1..(i - 1) : ~Includes(lines[j], ARROW)
  ELSE Len(lines) + 1

\* The position where the first cue block begins: at its identifier, the
\* non-blank line other than a block keyword right above the timing line, or
\* else at the timing line.
FirstCueLine(lines) ==
  LET timing == FirstTimingLine(lines)
  IN IF /\ timing > 1
        /\ timing <= Len(lines)
        /\ Trim(lines[timing - 1]) # <<>>
        /\ ~isSignature(lines[timing - 1])
        /\ ~isMetadataBlock(lines[timing - 1])
     THEN timing - 1 ELSE timing

\* Line i belongs to a NOTE, STYLE or REGION block: a keyword line at or above
\* it with no blank line in between.
InMetadataBlock(lines, i) ==
  \E k \in 1..i :
    /\ isMetadataBlock(lines[k])
    /\ \A j \in k..i : Trim(lines[j]) # <<>>

\* The cue blocks of the translated text, as the run joined them.
TranslatedBody ==
  Join(cueBlocks(translateCues(plDoc.cues, plTranslated.value)), <<NL, NL>>)

\* What follows the header in the translated text: a blank line and the cue
\* blocks, or only the final line break when there is no cue.
AfterHeader ==
  IF TranslatedBody = <<>> THEN <<NL>>
  ELSE <<NL, NL>> \o TranslatedBody \o (IF EndsWith(TranslatedBody, <<NL>>) THEN <<>> ELSE <<NL>>)

\* The run returned a translated text for a source that begins with WEBVTT.
TranslatedWithSignature ==
  /\ plPc = "returned"
  /\ plResult.status = "translated"
  /\ StartsWith(vttText, WEBVTT)

\* The header of the translated text keeps the source's signature line and
\* every line of the NOTE, STYLE and REGION blocks above the first cue, is
\* followed by one blank line and the cue blocks, and none of its lines is in
\* the translated text more often than in the source.
HeaderKept ==
  LET lines == normalizeVttLines(vttText)
      translatedVtt == plResult.translatedVtt
      header == SubSeq(translatedVtt, 1, Len(translatedVtt) - Len(AfterHeader))
      headerLines == Split(header, <<NL>>)
      outLines == Split(translatedVtt, <<NL>>)
      textLines == UNION {{Split(plTranslated.value[c], <<NL>>)[k] :
                             k \in 1..Len(Split(plTranslated.value[c], <<NL>>))} :
                          c \in 1..Len(plTranslated.value)}
  IN /\ EndsWith(translatedVtt, AfterHeader)
     /\ header # <<>>
     /\ header[Len(header)] # NL
     /\ headerLines[1] = lines[1]
     /\ \A i \in 1..(FirstCueLine(lines) - 1) :
          InMetadataBlock(lines, i) => \E j \in 1..Len(headerLines) : headerLines[j] = lines[i]
     /\ \A j \in 1..Len(headerLines) :
          (Trim(headerLines[j]) # <<>> /\ headerLines[j] \notin textLines) =>
            CountLine(headerLines[j], outLines) <= CountLine(headerLines[j], lines)

\* Every NOTE, STYLE or REGION block above the first cue of the source is
\* closed by a blank line.
HeaderBlocksClosed ==
  LET lines == normalizeVttLines(vttText)
      first == FirstCueLine(lines)
  IN first > 1 /\ first <= Len(lines) => ~InMetadataBlock(lines, first - 1)

\* C31: on a successful run over a source that begins with WEBVTT the
\* translated text begins with the source's signature line, retains every
\* NOTE/STYLE/REGION block above the first cue, repeats no line of the header,
\* and has one blank line between the header and the cue blocks.
C31_HeaderKept == TranslatedWithSignature => HeaderKept

\* The same for the sources whose header blocks are closed by a blank line.
C31_HeaderKeptWhenBlocksClosed ==
  (TranslatedWithSignature /\ HeaderBlocksClosed) => HeaderKept

\* A run over a source with a STYLE block and a NOTE block returned a
\* translated text.
C31_ClosedBlocksReached ==
  /\ TranslatedWithSignature
  /\ HeaderBlocksClosed
  /\ Len(parseVttWithHeader(vttText).header) > Len(WEBVTT)

\* The run over 'WEBVTT', 'NOTE', 'id', '1 --> 2', 'a' returned a text with
\* the line 'id' in the header and again as the identifier of the cue.
C31_DuplicatedLineReached ==
  /\ TranslatedWithSignature
  /\ vttText = Join(<<WEBVTT, NOTE, <<"i", "d">>, <<"1", SP, "-", "-", ">", SP, "2">>, <<"a">>>>,
                    <<NL>>)
  /\ plTranslated.value = << <<"A">> >>
  /\ plResult.translatedVtt =
       Join(<<WEBVTT, NOTE, <<"i", "d">>, <<>>, <<"i", "d">>,
              <<"1", SP, "-", "-", ">", SP, "2">>, <<"A">>, <<>>>>, <<NL>>)

\* ------------------------------------------------------------------------
\* The cache of the onBeforeRequest listener

\* The pipeline runs the listener started.
ListenerRuns == {run \in DOMAIN pipelineRuns : pipelineRuns[run].origin = "webRequest"}

RunBaseUrl(run) == baseUrlOf(pipelineRuns[run].request.url)

\* The run ended in an error result or in a rejection.
RunFailed(settlement) ==
  \/ settlement.state = "rejected"
  \/ settlement.state = "resolved" /\ settlement.response.status # "translated"

RunSucceeded(settlement) ==
  settlement.state = "resolved" /\ settlement.response.status = "translated"

\* The entries of the cache are the listener's runs that are in flight or
\* succeeded, each under its base URL; a run that failed has no entry, and a
\* base URL has a second run only after the first one failed.
CacheHoldsLiveRuns ==
  /\ \A baseUrl \in DOMAIN translationPromises :
       /\ translationPromises[baseUrl] \in ListenerRuns
       /\ RunBaseUrl(translationPromises[baseUrl]) = baseUrl
  /\ \A run \in ListenerRuns :
       LET cached == /\ RunBaseUrl(run) \in DOMAIN translationPromises
                     /\ translationPromises[RunBaseUrl(run)] = run
       IN cached = ~RunFailed(pipelineRuns[run].settlement)
  /\ \A r1, r2 \in ListenerRuns :
       (r1 < r2 /\ RunBaseUrl(r1) = RunBaseUrl(r2)) => RunFailed(pipelineRuns[r1].settlement)

\* One step of the cache: an entry leaves only in the step in which its run
\* fails, and the run that fails loses its entry; an entry never changes its
\* run; a French subtitle request starts a run exactly when its base URL has no
\* entry, and otherwise starts none and, the run having succeeded, sends the
\* stored result to the tab.
CacheStep ==
  /\ \A baseUrl \in DOMAIN translationPromises :
       LET run == translationPromises[baseUrl]
       IN IF baseUrl \in DOMAIN translationPromises'
          THEN /\ translationPromises'[baseUrl] = run
               /\ ~RunFailed(pipelineRuns'[run].settlement)
          ELSE /\ pipelineRuns[run].settlement.state = "pending"
               /\ RunFailed(pipelineRuns'[run].settlement)
  /\ Len(webRequestLog') > Len(webRequestLog) =>
       LET url == webRequestLog'[Len(webRequestLog')].url
           baseUrl == baseUrlOf(url)
       IN IF ~isFrenchArteVtt(url)
          THEN pipelineRuns' = pipelineRuns /\ translationPromises' = translationPromises
          ELSE IF baseUrl \in DOMAIN translationPromises
          THEN /\ Len(pipelineRuns') = Len(pipelineRuns)
               /\ translationPromises' = translationPromises
               /\ RunSucceeded(pipelineRuns[translationPromises[baseUrl]].settlement) =>
                    tabMessages' =
                      Append(tabMessages,
                             [type |-> "VTT_TRANSLATED", url |-> url,
                              translatedVtt |->
                                pipelineRuns[translationPromises[baseUrl]].settlement
                                  .response.translatedVtt])
          ELSE /\ Len(pipelineRuns') = Len(pipelineRuns) + 1
               /\ pipelineRuns'[Len(pipelineRuns')].settlement.state = "pending"
               /\ pipelineRuns'[Len(pipelineRuns')].request.url = url
               /\ baseUrl \in DOMAIN translationPromises'
               /\ translationPromises'[baseUrl] = Len(pipelineRuns')

\* C32: for the subtitle URLs the listener detects, the cache entry of a base
\* URL is removed when, and only when, the run stored under it ends in an
\* error result or a rejection, and a later request for the URL then starts a
\* new run; the entry of a run that succeeded is never removed, and later
\* requests for its URL start no run and re-send the stored result; a removal
\* never deletes the entry of a newer run that is in flight.
C32_CacheFollowsRuns == []CacheHoldsLiveRuns /\ [][CacheStep]_vars

\* Under one base URL the first run failed, the second run succeeded, and a
\* third request joined it and had the stored result sent again.
C32_Witness ==
  /\ Len(pipelineRuns) = 2
  /\ ListenerRuns = {1, 2}
  /\ RunBaseUrl(1) = RunBaseUrl(2)
  /\ RunFailed(pipelineRuns[1].settlement)
  /\ RunSucceeded(pipelineRuns[2].settlement)
  /\ translationPromises[RunBaseUrl(2)] = 2
  /\ Len(webRequestLog) = 3
  /\ webRequestLog[3].did = "joined"
  /\ Len(tabMessages) = 2

\* ------------------------------------------------------------------------
\* Failed translations in the content script

\* requestTranslation for the video settled without a translation: the track
\* had no src, the message was answered with an error response, or it was
\* rejected.
TranslationFailed(result) ==
  \/ result.src = "" /\ result.reply = NoReply /\ result.translatedVtt = Null
  \/ result.src # "" /\ result.reply.kind = "response" /\ result.reply.status = "error"
  \/ result.src # "" /\ result.reply.kind = "rejected"

\* processVideo has returned for the videos whose request settled; a failed
\* translation made no call of injectTranslatedTrackFn, a translated text
\* made one.
InjectedOnlyWhenTranslated ==
  \A video \in VideoElements :
    LET result == videoResults[video]
    IN /\ result # NoVideoResult => videoPc[video] = "done" /\ requestCalls[video] = 1
       /\ TranslationFailed(result) => result.injectCalls = 0 /\ result.translatedVtt = Null
       /\ (result.reply.status = "translated" /\ result.translatedVtt # "") =>
            result.injectCalls = 1

\* After the first video's processVideo returned, with or without a
\* translation, bootstrap is at the call of processAvailableVideos or has
\* installed the observer, and with the observer installed and no callback
\* owed every video of the document has been taken by processVideo.
ScriptGoesOn ==
  /\ (bootVideo # "null" /\ videoResults[bootVideo] # NoVideoResult) =>
       bootPc \in {"firstVideo", "observing"}
  /\ (bootPc = "observing" /\ ~mutationPending) => documentVideos \subseteq processedVideos

\* The step in which a translation fails changes nothing but the state of
\* that video's processVideo.
FailureStaysLocal ==
  \A video \in VideoElements :
    (videoResults'[video] # videoResults[video] /\ TranslationFailed(videoResults'[video])) =>
      /\ videoPc' = [videoPc EXCEPT ![video] = "done"]
      /\ \A other \in VideoElements \ {video} : videoResults'[other] = videoResults[other]
      /\ UNCHANGED <<bootPc, documentVideos, processedVideos, requestCalls, processRuns,
                     bootVideo, mutationPending>>

\* C33: a failed translation for one video (error response, rejected message
\* or missing track src) injects no translated track into that video and does
\* not stop the content script: bootstrap goes on to install the observer,
\* and a video added later is taken by processVideo and given its translated
\* track when its translation arrives.
C33_FailureInjectsNothingAndGoesOn ==
  [](InjectedOnlyWhenTranslated /\ ScriptGoesOn) /\ [][FailureStaysLocal]_vars

\* The first video's translation failed with an error response; video2,
\* added after the observer was installed, was taken by the observer's
\* callback, translated and given its track.
C33_Witness ==
  /\ bootVideo = "video1"
  /\ videoResults["video1"].reply.status = "error"
  /\ videoResults["video1"].injectCalls = 0
  /\ bootPc = "observing"
  /\ processRuns["video2"] = <<"observer">>
  /\ videoResults["video2"].reply.status = "translated"
  /\ videoResults["video2"].translatedVtt = "WEBVTT"
  /\ videoResults["video2"].injectCalls = 1

\* The other two failures are reached as well: a track without a src and a
\* rejected message, each with a later video given its track.
C33_OtherFailuresReached ==
  /\ videoResults["video1"].src = ""
  /\ videoPc["video1"] = "done"
  /\ requestCalls["video1"] = 1
  /\ videoResults["video2"].reply.kind = "rejected"
  /\ processRuns["video3"] = <<"observer">>
  /\ videoResults["video3"].injectCalls = 1

====
